---- MODULE Spec2Model ----
(***************************************************************************)
(* A model of the vex-rag indexing pipeline: path validation, SQL literal  *)
(* sanitising, the injection scanner and provenance tracker, the chunker,  *)
(* context generation, embedding and the LanceDB passage store; of the     *)
(* retrieval pipeline: vector and BM25 search, reciprocal rank fusion and  *)
(* the reranker; and of the composite notifier.                            *)
(*                                                                         *)
(* Strings are sequences of symbols.  A symbol is one character ("/", "'") *)
(* or a run of characters that the code never looks inside ("docs",        *)
(* ".md", "..").                                                           *)
(***************************************************************************)
EXTENDS Integers, Sequences, FiniteSets, Bags, TLC

VARIABLES
    table,      \* KnowledgeBaseIndexer.table is not None
    store,      \* the rows of the LanceDB table, a bag
    scanner,    \* the module global _security_scanner: "unset", "lax", "strict"
    tracked,    \* ProvenanceTracker.tracked_documents: the source paths recorded
    last,       \* what the last call was given, returned or raised
    arg,        \* input of the pure function under check
    res,        \* its result
    procs       \* the calls in flight, when calls run concurrently

vars == <<table, store, scanner, tracked, last, arg, res, procs>>

(***************************************************************************)
(* Bounds of the model.                                                    *)
(***************************************************************************)
MaxRows == 2         \* rows the table holds at one time
MaxPathLen == 3      \* symbols in a path given to _validate_path
MaxBases == 2        \* entries of allowed_bases given to _validate_path
MaxSqlLen == 4       \* symbols in a value given to _sanitize_sql_value

(***************************************************************************)
(* Sequence helpers.                                                       *)
(***************************************************************************)
IsPrefix(s, t) == Len(s) <= Len(t) /\ SubSeq(t, 1, Len(s)) = s

Tail2(s) == SubSeq(s, 3, Len(s))

SeqsUpTo(S, n) == UNION {[1..k -> S] : k \in 0..n}

Contains(s, pat) ==
    \E i \in 1..(Len(s) - Len(pat) + 1) : SubSeq(s, i, i + Len(pat) - 1) = pat

Max(a, b) == IF a >= b THEN a ELSE b

(***************************************************************************)
(* _sanitize_sql_value: value.replace("'", "''").                          *)
(***************************************************************************)
\* a sanitiser that forgets to double the quotes
SanitizeNoEscape(value) == value

RECURSIVE SanitizeSqlValue(_)
SanitizeSqlValue(value) ==
    IF value = <<>> THEN <<>>
    ELSE IF Head(value) = "'"
         THEN <<"'", "'">> \o SanitizeSqlValue(Tail(value))
         ELSE <<Head(value)>> \o SanitizeSqlValue(Tail(value))

\* f"{col} = '{safe}'"
WhereClause(col, safe) == <<col, "=", "'">> \o safe \o <<"'">>

(***************************************************************************)
(* The store's reading of a where-clause.  A string literal runs from its  *)
(* opening quote to the first quote that is not doubled; a doubled quote   *)
(* stands for one quote.  ParseLiteral is given the text after the opening *)
(* quote.                                                                  *)
(***************************************************************************)
RECURSIVE ParseLiteral(_, _)
ParseLiteral(text, acc) ==
    IF text = <<>> THEN [ok |-> FALSE, lit |-> acc, rest |-> <<>>]
    ELSE IF Head(text) = "'"
         THEN IF Len(text) >= 2 /\ text[2] = "'"
              THEN ParseLiteral(Tail2(text), Append(acc, "'"))
              ELSE [ok |-> TRUE, lit |-> acc, rest |-> Tail(text)]
         ELSE ParseLiteral(Tail(text), Append(acc, Head(text)))

\* <col> = '<literal>' [ OR '<x>' = '<y>' ]
ParseWhere(clause) ==
    IF Len(clause) < 3 \/ clause[2] # "=" \/ clause[3] # "'"
    THEN [ok |-> FALSE, col |-> "", lit |-> <<>>, always |-> FALSE]
    ELSE
      LET first == ParseLiteral(SubSeq(clause, 4, Len(clause)), <<>>)
          r == first.rest
      IN  IF ~first.ok
          THEN [ok |-> FALSE, col |-> clause[1], lit |-> first.lit, always |-> FALSE]
          ELSE IF r = <<>>
          THEN [ok |-> TRUE, col |-> clause[1], lit |-> first.lit, always |-> FALSE]
          ELSE IF Len(r) >= 2 /\ r[1] = "OR" /\ r[2] = "'"
          THEN LET x == ParseLiteral(Tail2(r), <<>>)
               IN  IF x.ok /\ Len(x.rest) >= 2 /\ x.rest[1] = "=" /\ x.rest[2] = "'"
                   THEN LET y == ParseLiteral(Tail2(x.rest), <<>>)
                        IN  IF y.ok /\ y.rest = <<>>
                            THEN [ok |-> TRUE, col |-> clause[1], lit |-> first.lit,
                                  always |-> (x.lit = y.lit)]
                            ELSE [ok |-> FALSE, col |-> clause[1], lit |-> first.lit,
                                  always |-> FALSE]
                   ELSE [ok |-> FALSE, col |-> clause[1], lit |-> first.lit,
                         always |-> FALSE]
          ELSE [ok |-> FALSE, col |-> clause[1], lit |-> first.lit, always |-> FALSE]

\* the rows a parsed where-clause selects
RowsWhere(rows, w) == {r \in rows : w.always \/ r[w.col] = w.lit}

\* the store's reading of f"{col} = '{_sanitize_sql_value(value)}'"
Where(col, value) == ParseWhere(WhereClause(col, SanitizeSqlValue(value)))

\* the value a set of <<key, value>> pairs holds for a key
Lookup(tbl, key) == (CHOOSE t \in tbl : t[1] = key)[2]

(***************************************************************************)
(* Paths.  The file system the paths are resolved against: the working     *)
(* directory /a, the home directory /a/h, a symlink /a/lnk -> /out and a   *)
(* symlink /s -> /a.  A resolved path is its sequence of components.       *)
(***************************************************************************)
Cwd == << <<"a">> >>

Home == << <<"a">>, <<"h">> >>

Symlinks ==
    (<< <<"a">>, <<"lnk">> >> :> << <<"out">> >>) @@ (<< <<"s">> >> :> << <<"a">> >>)

\* Path(s).parts without the root: the runs of symbols between "/"
RECURSIVE Components(_, _)
Components(s, cur) ==
    IF s = <<>> THEN (IF cur = <<>> THEN <<>> ELSE <<cur>>)
    ELSE IF Head(s) = "/"
         THEN (IF cur = <<>> THEN <<>> ELSE <<cur>>) \o Components(Tail(s), <<>>)
         ELSE Components(Tail(s), Append(cur, Head(s)))

\* Path(s)
ParsePath(s) == [abs |-> (s # <<>> /\ Head(s) = "/"), comps |-> Components(s, <<>>)]

\* Path.expanduser(): "~" is the home directory, "~name" an unknown user
ExpandUser(p) ==
    IF ~p.abs /\ p.comps # <<>> /\ Head(Head(p.comps)) = "~"
    THEN IF Head(p.comps) = <<"~">>
         THEN [ok |-> TRUE, abs |-> TRUE, comps |-> Home \o Tail(p.comps)]
         ELSE [ok |-> FALSE, abs |-> FALSE, comps |-> p.comps]
    ELSE [ok |-> TRUE, abs |-> p.abs, comps |-> p.comps]

\* Path.resolve(): ".." goes to the parent of the directory reached so far,
\* and a symlink is replaced by its target
RECURSIVE Walk(_, _)
Walk(cur, comps) ==
    IF comps = <<>> THEN cur
    ELSE LET c == Head(comps)
             next == IF c = <<"..">>
                     THEN (IF cur = <<>> THEN <<>> ELSE SubSeq(cur, 1, Len(cur) - 1))
                     ELSE IF Append(cur, c) \in DOMAIN Symlinks
                          THEN Symlinks[Append(cur, c)]
                          ELSE Append(cur, c)
         IN  Walk(next, Tail(comps))

Resolve(p) == Walk(IF p.abs THEN <<>> ELSE Cwd, p.comps)

\* resolved_path.relative_to(base) does not raise ValueError
RelativeTo(resolved, base) == base.abs /\ IsPrefix(base.comps, resolved)

\* the loop of _validate_path over allowed_bases
RECURSIVE FirstBase(_, _)
FirstBase(resolved, bases) ==
    IF bases = <<>> THEN [kind |-> "SecurityError", path |-> resolved]
    ELSE IF RelativeTo(resolved, Head(bases))
         THEN [kind |-> "ok", path |-> resolved]
         ELSE FirstBase(resolved, Tail(bases))

\* _validate_path(user_path, allowed_bases)
ValidatePath(user_path, allowed_bases) ==
    LET e == ExpandUser(ParsePath(user_path))
    IN  IF ~e.ok THEN [kind |-> "RuntimeError", path |-> <<>>]
        ELSE FirstBase(Resolve(e), allowed_bases)

\* security.allowed_base_paths of .vex-rag.yml
ConfigBases == << <<"/", "s">> >>

\* _load_allowed_base_paths(): every configured path expanded and resolved
LoadAllowedBasePaths ==
    [i \in 1..Len(ConfigBases) |->
        [abs |-> TRUE, comps |-> Resolve(ExpandUser(ParsePath(ConfigBases[i])))]]

(***************************************************************************)
(* Documents.  A content is a sequence of paragraphs (the runs of text     *)
(* between blank lines).  A paragraph is len characters long, may start    *)
(* with "#" (hd) and may hold one phrase that an injection regex matches   *)
(* (ph); q counts the [QUOTED_CONTENT: "..."] markers wrapped round it.    *)
(***************************************************************************)
Para(ph, len, hd) == [ph |-> ph, q |-> 0, len |-> len, hd |-> hd]

\* INJECTION_PATTERNS in dictionary order, one matched phrase per category
InjectionPatterns ==
    << [category |-> "instruction_override", phrase |-> "IGN", severity |-> "CRITICAL"],
       [category |-> "prompt_extraction", phrase |-> "EXT", severity |-> "HIGH"],
       [category |-> "indirect_manipulation", phrase |-> "ADM", severity |-> "MEDIUM"],
       [category |-> "suspicious_context", phrase |-> "RUN", severity |-> "LOW"] >>

\* severity_order
SeverityOrder(sev) ==
    CASE sev = "CLEAN" -> 0 [] sev = "LOW" -> 1 [] sev = "MEDIUM" -> 2
      [] sev = "HIGH" -> 3 [] sev = "CRITICAL" -> 4

\* len('[QUOTED_CONTENT: "') + len('"]')
MarkerLen == 20

\* the matches of one pattern, in the order re.finditer finds them
RECURSIVE MatchesOf(_, _, _)
MatchesOf(pat, content, i) ==
    IF i > Len(content) THEN <<>>
    ELSE (IF content[i].ph = pat.phrase
          THEN << [category |-> pat.category, severity |-> pat.severity,
                   matched_text |-> pat.phrase, position |-> i] >>
          ELSE <<>>) \o MatchesOf(pat, content, i + 1)

\* detected_patterns: every category in turn
RECURSIVE DetectedPatterns(_, _)
DetectedPatterns(content, k) ==
    IF k > Len(InjectionPatterns) THEN <<>>
    ELSE MatchesOf(InjectionPatterns[k], content, 1) \o DetectedPatterns(content, k + 1)

\* highest_severity
RECURSIVE HighestSeverity(_, _)
HighestSeverity(detected, sofar) ==
    IF detected = <<>> THEN sofar
    ELSE HighestSeverity(Tail(detected),
            IF SeverityOrder(Head(detected).severity) > SeverityOrder(sofar)
            THEN Head(detected).severity ELSE sofar)

\* sorted(detected_patterns, key=position, reverse=True)
RECURSIVE SortedByPositionDesc(_, _)
SortedByPositionDesc(detected, pos) ==
    IF pos = 0 THEN <<>>
    ELSE SelectSeq(detected, LAMBDA d : d.position = pos)
         \o SortedByPositionDesc(detected, pos - 1)

\* sanitized.replace(matched_text, replacement, 1): the first paragraph that
\* holds the text gets the marker
RECURSIVE ReplaceFirst(_, _, _)
ReplaceFirst(content, text, i) ==
    IF i > Len(content) THEN content
    ELSE IF content[i].ph = text
         THEN [content EXCEPT ![i] = [@ EXCEPT !.q = @ + 1, !.len = @ + MarkerLen]]
         ELSE ReplaceFirst(content, text, i + 1)

\* _sanitize_content
RECURSIVE SanitizeContent(_, _)
SanitizeContent(content, sorted) ==
    IF sorted = <<>> THEN content
    ELSE SanitizeContent(ReplaceFirst(content, Head(sorted).matched_text, 1), Tail(sorted))

\* a gate that blocks on CRITICAL alone
IsSafeCriticalOnly(strict, risk) == ~(strict /\ risk = "CRITICAL")

\* is_safe of detect_injections
IsSafe(strict, risk) == ~(strict /\ risk \in {"CRITICAL", "HIGH"})

\* InjectionPatternDetector.detect_injections
DetectInjections(content, strict) ==
    LET detected == DetectedPatterns(content, 1)
        risk == HighestSeverity(detected, "CLEAN")
    IN  [is_safe |-> IsSafe(strict, risk),
         risk_level |-> risk,
         detected_patterns |-> detected,
         sanitized_content |->
            IF detected # <<>>
            THEN SanitizeContent(content, SortedByPositionDesc(detected, Len(content)))
            ELSE content]

\* hashlib.sha256(...).hexdigest(): equal exactly for equal texts
Sha256(content) == <<"sha256", content>>

(***************************************************************************)
(* Provenance.  Scores are in hundredths.                                  *)
(***************************************************************************)
\* str.lower() on a symbol
Lower(sym) ==
    CASE sym = "CLAUDE" -> "claude" [] sym = "DOCS" -> "docs" [] OTHER -> sym

PathLower(path) == [i \in 1..Len(path) |-> Lower(path[i])]

\* TRUST_LEVELS in dictionary order
TrustLevels ==
    << [level |-> "TRUSTED", score |-> 100,
        sources |-> << <<".claude", "/">>, <<"docs", "/">>, <<"CLAUDE", ".md">>, <<".md">> >>],
       [level |-> "VERIFIED", score |-> 75,
        sources |-> << <<"output", "/", "research", "/">>, <<".py">>, <<".ts">>, <<".yml">> >>],
       [level |-> "UNTRUSTED", score |-> 50,
        sources |-> << <<"external", "/">>, <<"downloads", "/">>, <<"temp", "/">> >>] >>

\* the loop of determine_trust_level over TRUST_LEVELS
RECURSIVE MatchTrustLevel(_, _)
MatchTrustLevel(path_lower, k) ==
    IF k > Len(TrustLevels) THEN [trust_level |-> "VERIFIED", trust_score |-> 75]
    ELSE IF \E j \in 1..Len(TrustLevels[k].sources) :
                Contains(path_lower, TrustLevels[k].sources[j])
         THEN [trust_level |-> TrustLevels[k].level, trust_score |-> TrustLevels[k].score]
         ELSE MatchTrustLevel(path_lower, k + 1)

\* a tracker that gives every local file the default level
DetermineTrustLevelDefault(source_path, source_type) ==
    [trust_level |-> "VERIFIED", trust_score |-> 75]

\* ProvenanceTracker.determine_trust_level
DetermineTrustLevel(source_path, source_type) ==
    IF source_type \in {"URL", "API"}
    THEN [trust_level |-> "UNTRUSTED", trust_score |-> 50]
    ELSE MatchTrustLevel(PathLower(source_path), 1)

\* risk_penalties.get(risk_level, 0)
RiskPenalty(risk) ==
    CASE risk = "CRITICAL" -> 50 [] risk = "HIGH" -> 30 [] risk = "MEDIUM" -> 15
      [] risk = "LOW" -> 5 [] OTHER -> 0

\* a penalty that is subtracted without the floor
PenalizeNoFloor(score, penalty) == score - penalty

\* max(0.1, trust_score - penalty)
Penalize(score, penalty) == Max(10, score - penalty)

\* ProvenanceTracker.create_provenance: the trust fields of the record
CreateProvenance(source_path, source_type, scan) ==
    LET t == DetermineTrustLevel(source_path, source_type)
    IN  [trust_level |-> t.trust_level,
         trust_score |-> IF scan.detected_patterns # <<>>
                         THEN Penalize(t.trust_score, RiskPenalty(scan.risk_level))
                         ELSE t.trust_score,
         security_risk |-> scan.risk_level]

\* RAGSecurityScanner.scan_document
ScanDocument(content, source_path, source_type, strict) ==
    LET d == DetectInjections(content, strict)
    IN  [is_safe |-> d.is_safe,
         sanitized_content |-> d.sanitized_content,
         provenance |-> CreateProvenance(source_path, source_type, d)]

(***************************************************************************)
(* Chunker.  A chunk text is a sequence of paragraphs joined by a          *)
(* separator.                                                              *)
(***************************************************************************)
ChunkSize == 384

MinChunkSize == 100

\* len() of paragraphs joined by a separator of sep characters
RECURSIVE TextLen(_, _)
TextLen(text, sep) ==
    IF text = <<>> THEN 0
    ELSE IF Len(text) = 1 THEN text[1].len
    ELSE text[1].len + sep + TextLen(Tail(text), sep)

\* SmartChunker.estimate_tokens
EstimateTokens(length) == length \div 4

\* the loop of _chunk_markdown (overlap = TRUE, sep = 2) and of
\* _chunk_generic (overlap = FALSE, sep = 1) over the paragraphs or sentences
RECURSIVE ChunkLoop(_, _, _, _, _)
ChunkLoop(paras, current, chunks, overlap, sep) ==
    LET emit(cs) ==
            IF current # <<>> /\ EstimateTokens(TextLen(current, sep)) >= MinChunkSize
            THEN Append(cs, current) ELSE cs
    IN  IF paras = <<>> THEN emit(chunks)
        ELSE LET para == Head(paras)
                 combined == Append(current, para)
             IN  IF EstimateTokens(TextLen(combined, sep)) <= ChunkSize
                 THEN ChunkLoop(Tail(paras), combined, chunks, overlap, sep)
                 ELSE ChunkLoop(Tail(paras),
                                IF overlap /\ Len(current) >= 2
                                THEN <<current[Len(current)], para>>
                                ELSE <<para>>,
                                emit(chunks), overlap, sep)

\* a chunker that counts chunk_index from 1
ChunkDocumentFromOne(content, file_type) ==
    LET texts == IF file_type \in {".md", ".txt"}
                 THEN ChunkLoop(content, <<>>, <<>>, TRUE, 2)
                 ELSE ChunkLoop(content, <<>>, <<>>, FALSE, 1)
    IN  [i \in 1..Len(texts) |-> [text |-> texts[i], chunk_index |-> i]]

\* chunk_document; chunk_index counts from 0.  The documents of the model
\* are markup or of no known kind (no .py, .ts, .js, .sh).
ChunkDocument(content, file_type) ==
    LET texts == IF file_type \in {".md", ".txt"}
                 THEN ChunkLoop(content, <<>>, <<>>, TRUE, 2)
                 ELSE ChunkLoop(content, <<>>, <<>>, FALSE, 1)
    IN  [i \in 1..Len(texts) |-> [text |-> texts[i], chunk_index |-> i - 1]]

\* Path(file_path).suffix
Suffix(path) ==
    IF path # <<>> /\ path[Len(path)] \in {".md", ".txt", ".py", ".yml", ".ts"}
    THEN path[Len(path)] ELSE ""

(***************************************************************************)
(* Context generation.                                                     *)
(***************************************************************************)
\* _should_generate_context: short chunks and headings are skipped
ShouldGenerateContext(text) ==
    ~(TextLen(text, 2) < 100) /\ ~text[1].hd

\* what a task of generate_contexts_parallel comes back with: a context, or
\* None (_generate_context_async: the answer is shorter than 10 characters,
\* or the request raised)
LlmOutcomes == {"ok", "none"}

\* the chunk indexes for which a task is created
NeedingContext(chunks) ==
    {chunks[i].chunk_index : i \in {j \in 1..Len(chunks) : ShouldGenerateContext(chunks[j].text)}}

\* generate_contexts_parallel: the generated chunks (a task that returns
\* None adds nothing) as the tasks complete, then the skipped chunks.  The
\* documents of the model have at most one chunk that needs a context, so
\* the order of completion is the one order there is.  needing is
\* chunks_needing_context, llm the outcome of every task.
GenerateContextsParallel(chunks, needing, llm) ==
    LET generated ==
            SelectSeq(chunks, LAMBDA c : c.chunk_index \in needing
                                         /\ llm[c.chunk_index] = "ok")
        skipped == SelectSeq(chunks, LAMBDA c : c.chunk_index \notin needing)
        gen(c) == [generated_context |-> "llm", chunk_index |-> c.chunk_index]
        skip(c) == [generated_context |-> "", chunk_index |-> c.chunk_index]
    IN  [i \in 1..Len(generated) |-> gen(generated[i])]
        \o [i \in 1..Len(skipped) |-> skip(skipped[i])]

(***************************************************************************)
(* Embedding.  What the daemon answers for one text: 0 for a failed        *)
(* request, else the length of the vector returned.  A vector is known by  *)
(* its length and by the text it was computed from (of).                   *)
(***************************************************************************)
ExpectedDimensions == 768

\* Embedder.embed: None for a failed request, else the vector as returned
Embed(text, outcome) ==
    IF outcome = 0 THEN [none |-> TRUE, dim |-> 0, of |-> text]
    ELSE [none |-> FALSE, dim |-> outcome, of |-> text]

\* Embedder.embed_batch
EmbedBatch(texts, outcomes) == [i \in 1..Len(texts) |-> Embed(texts[i], outcomes[i])]

(***************************************************************************)
(* The indexer.                                                            *)
(***************************************************************************)
\* the documents handed to index_document
PathDocs == <<"/", "a", "/", "docs", "/", "x", ".md">>

PathTemp == <<"/", "a", "/", "temp", "/", "o", "'", "c", ".txt">>

PathEscape == <<"/", "a", "/", "..", "/", "etc", "/", "p", ".md">>

DocPaths == {PathDocs, PathTemp, PathEscape}

Projects == {<<"P">>, <<"Q">>}

ContentShort == << Para("none", 200, FALSE) >>

ContentClean == << Para("none", 600, TRUE), Para("none", 600, FALSE), Para("none", 1200, FALSE) >>

ContentCritical == << Para("IGN", 1200, FALSE) >>

ContentHigh == << Para("EXT", 1200, FALSE) >>

ContentMedium == << Para("ADM", 1200, FALSE) >>

ContentLow == << Para("RUN", 1200, FALSE) >>

Contents ==
    {ContentShort, ContentClean, ContentCritical, ContentHigh, ContentMedium, ContentLow}

Doc(file_path, project, content) == [file_path |-> file_path, project |-> project, content |-> content]

Documents ==
    {Doc(PathDocs, <<"P">>, c) : c \in {ContentShort, ContentClean, ContentHigh}}
    \cup {Doc(PathTemp, <<"Q">>, c) : c \in {ContentCritical, ContentMedium, ContentLow}}
    \cup {Doc(PathEscape, <<"P">>, ContentClean)}

\* what can go wrong in one call: a store operation that raises, a model that
\* the daemon does not have (the constructors raise ValueError), the context
\* task of one chunk that returns None, the embedding of one text that fails
\* or comes back with another length
Faults == {"none", "search", "count", "delete", "add", "context_model", "embed_model"}

ChunkFaults == {"llm_none", "embed_none", "embed_dim"}

Environments ==
    {[kind |-> f, at |-> 0] : f \in Faults}
    \cup {[kind |-> f, at |-> k] : f \in ChunkFaults, k \in 0..1}

\* the outcome of the context task of every chunk, and of the embedding of
\* the n-th text of the batch, under an environment
LlmOf(env, indexes) ==
    [c \in indexes |-> IF env.kind = "llm_none" /\ env.at = c THEN "none" ELSE "ok"]

EmbedOf(env, n) ==
    [i \in 1..n |-> IF env.at = i - 1 /\ env.kind = "embed_none" THEN 0
                    ELSE IF env.at = i - 1 /\ env.kind = "embed_dim"
                    THEN ExpectedDimensions - 1
                    ELSE ExpectedDimensions]

\* a table that takes vectors of any length
SchemaAcceptsAny(data) == TRUE

\* the table's schema: vector is a fixed-size list of 768 floats, and a
\* batch with a vector of another length is refused whole
SchemaAccepts(data) == \A i \in 1..Len(data) : data[i].vector.dim = ExpectedDimensions

\* the records built from the embeddings that are not None, each paired with
\* the next chunk of the list instead of its own
IndexChunksDataCompacted(contextual_chunks, embeddings, document_path, project, file_type, content_hash, provenance_metadata) ==
    LET kept == SelectSeq([i \in 1..Len(contextual_chunks) |-> i],
                          LAMBDA i : ~embeddings[i].none)
    IN  [n \in 1..Len(kept) |->
            LET cc == contextual_chunks[n]
            IN  [chunk_index |-> cc.chunk_index,
                 generated_context |-> cc.generated_context,
                 vector |-> embeddings[kept[n]],
                 source_project |-> project,
                 file_path |-> document_path,
                 content_hash |-> content_hash,
                 trust_level |-> provenance_metadata.trust_level,
                 trust_score |-> provenance_metadata.trust_score,
                 security_risk |-> provenance_metadata.security_risk]]

\* the records index_chunks builds: one for every embedding that is not None.
\* chunk_id is a fresh uuid4 in every record and is not kept as a value: the
\* table is a bag of rows, and rows that differ in chunk_id only count twice.
IndexChunksData(contextual_chunks, embeddings, document_path, project, file_type, content_hash, provenance_metadata) ==
    LET kept == SelectSeq([i \in 1..Len(contextual_chunks) |-> i],
                          LAMBDA i : ~embeddings[i].none)
    IN  [n \in 1..Len(kept) |->
            LET cc == contextual_chunks[kept[n]]
            IN  [chunk_index |-> cc.chunk_index,
                 generated_context |-> cc.generated_context,
                 vector |-> embeddings[kept[n]],
                 source_project |-> project,
                 file_path |-> document_path,
                 content_hash |-> content_hash,
                 trust_level |-> provenance_metadata.trust_level,
                 trust_score |-> provenance_metadata.trust_score,
                 security_risk |-> provenance_metadata.security_risk]]

\* provenance_metadata of a call without a scan: the defaults of index_chunks
DefaultProvenance == [trust_level |-> "VERIFIED", trust_score |-> 75, security_risk |-> "CLEAN"]

\* table.add(data) and table.delete(where) on the bag of rows
TableAdd(rows, data) == rows (+) SetToBag({data[i] : i \in 1..Len(data)})

TableDelete(rows, w) ==
    [r \in BagToSet(rows) \ RowsWhere(BagToSet(rows), w) |-> rows[r]]

\* table.count_rows(where)
CountRows(rows, w) == BagCardinality(rows) - BagCardinality(TableDelete(rows, w))

\* the rows of a file, and how many there are
FileRows(rows, path) == {r \in BagToSet(rows) : r.file_path = path}

FileCount(rows, path) ==
    BagCardinality([r \in FileRows(rows, path) |-> rows[r]])

\* what a call was given and what came of it: out is "returned" or the
\* error raised, ret the value returned, changed whether document.content
\* was assigned another text, hash the content hash computed, chunks the
\* number of chunks the chunker cut, written the chunk_index of every row
\* written, why the branch that ended the call, embedded what embed_batch
\* gave for every contextual chunk (its chunk_index, and whether None)
NoCall ==
    [op |-> "none", path |-> <<>>, content |-> <<>>, scan |-> FALSE, out |-> "none",
     ret |-> 0, changed |-> FALSE, hash |-> <<>>, chunks |-> 0, written |-> <<>>,
     why |-> "", embedded |-> <<>>]

Call(d, scan, out, ret, changed, hash, chunks, written, why) ==
    [op |-> "index_document", path |-> d.file_path, content |-> d.content,
     scan |-> scan, out |-> out, ret |-> ret, changed |-> changed, hash |-> hash,
     chunks |-> chunks, written |-> written, why |-> why, embedded |-> <<>>]

\* the strings given to delete_by_file and delete_by_project
InjectedPath == PathDocs \o <<"'", "OR", "'", "1", "'", "=", "'", "1">>

FileArgs == {PathDocs, PathTemp, InjectedPath}

DeleteArgs == DocPaths \cup FileArgs \cup Projects

\* the where-clauses the indexer builds for the file paths and projects of
\* the model, as the store reads them
WhereClauses ==
    {<< <<col, value>>, Where(col, value) >> :
        col \in {"file_path", "source_project"}, value \in DeleteArgs}

\* the content-hash check of index_document: what it leaves in the store and
\* whether the call returns there.  limit(1) gives any one row of the file.
DedupOutcomes(content_hash, fault, w) ==
    LET proceed(rows) == [return |-> FALSE, ret |-> 0, rows |-> rows]
    IN  IF ~table \/ fault = "search" \/ ~w.ok
        THEN {proceed(store)}
        ELSE IF RowsWhere(BagToSet(store), w) = {} THEN {proceed(store)}
        ELSE { IF r.content_hash = content_hash
               THEN (IF fault = "count" THEN proceed(store)
                     ELSE [return |-> TRUE, ret |-> CountRows(store, w), rows |-> store])
               ELSE (IF fault \in {"count", "delete"} THEN proceed(store)
                     ELSE proceed(TableDelete(store, w)))
               : r \in RowsWhere(BagToSet(store), w) }

\* the call record with what embed_batch returned for the contextual chunks
Embedded(ccs, embeddings, call) ==
    [call EXCEPT !.embedded =
        [i \in 1..Len(embeddings) |->
            [chunk_index |-> embeddings[i].of.chunk_index, none |-> embeddings[i].none]]]

\* index_chunks: a length mismatch or no record gives 0; the batch is written
\* in one create_table or add, and a failure of it gives 0
IndexChunks(c, n, rows, ccs, embeddings, data) ==
    /\ table' = (table \/ (data # <<>> /\ c.env.kind # "add" /\ SchemaAccepts(data)))
    /\ IF Len(ccs) # Len(embeddings) \/ data = <<>>
       THEN /\ store' = rows
            /\ last' = Embedded(ccs, embeddings, Call(c.d, c.scan, "returned", 0, c.changed, c.hash, n, <<>>,
                            "no_records"))
       ELSE IF c.env.kind = "add"
       THEN /\ store' = rows
            /\ last' = Embedded(ccs, embeddings, Call(c.d, c.scan, "returned", 0, c.changed, c.hash, n, <<>>,
                            "add_failed"))
       ELSE IF ~SchemaAccepts(data)
       THEN /\ store' = rows
            /\ last' = Embedded(ccs, embeddings, Call(c.d, c.scan, "returned", 0, c.changed, c.hash, n, <<>>,
                            "schema"))
       ELSE /\ BagCardinality(rows) + Len(data) <= MaxRows
            /\ store' = TableAdd(rows, data)
            /\ last' = Embedded(ccs, embeddings, Call(c.d, c.scan, "returned", Len(data), c.changed, c.hash, n,
                            [i \in 1..Len(data) |-> data[i].chunk_index], "indexed"))

\* index_document from the Embedder on
EmbedStage(c, n, prov, rows, ccs, embeddings) ==
    IF c.env.kind = "embed_model"
    THEN /\ store' = rows
         /\ table' = table
         /\ last' = Call(c.d, c.scan, "ValueError", 0, c.changed, c.hash, n, <<>>,
                         "embed_model")
    ELSE IndexChunks(c, n, rows, ccs, embeddings,
                     IndexChunksData(ccs, embeddings, c.d.file_path, c.d.project,
                                     Suffix(c.d.file_path), c.hash, prov))

\* index_document from the chunker on
ChunkStage(c, prov, rows, chunks, ccs) ==
    IF chunks = <<>>
    THEN /\ store' = rows
         /\ table' = table
         /\ last' = Call(c.d, c.scan, "returned", 0, c.changed, c.hash, 0, <<>>,
                         "no_chunks")
    ELSE IF c.env.kind = "context_model"
    THEN /\ store' = rows
         /\ table' = table
         /\ last' = Call(c.d, c.scan, "ValueError", 0, c.changed, c.hash, Len(chunks),
                         <<>>, "context_model")
    ELSE EmbedStage(c, Len(chunks), prov, rows, ccs,
                    EmbedBatch(ccs, EmbedOf(c.env, Len(ccs))))

\* the chunks of a text and the indexes of those that need a context
Chunked(content, file_type) ==
    [chunks |-> ChunkDocument(content, file_type),
     needing |-> NeedingContext(ChunkDocument(content, file_type))]

\* what the steps of index_document that read nothing but the document give
\* for it under a lax and under a strict scanner: the validated path (v), the
\* scan (sc), the where-clause of the file as the store reads it (w), the
\* chunks of the content as given (raw) and as sanitised (clean)
Prepare(d, strict, sc) ==
    [d |-> d, strict |-> strict,
     v |-> ValidatePath(d.file_path, LoadAllowedBasePaths),
     sc |-> sc,
     w |-> Where("file_path", d.file_path),
     raw |-> Chunked(d.content, Suffix(d.file_path)),
     clean |-> Chunked(sc.sanitized_content, Suffix(d.file_path))]

PreparedDocuments ==
    {Prepare(d, strict, ScanDocument(d.content, d.file_path, "FILE", strict)) :
        d \in Documents, strict \in BOOLEAN}

\* index_document once the path is validated and the document scanned (or
\* not): hash, content-hash check, then the rest.  c is the call: document,
\* enable_security_scan, environment, whether the content was replaced, hash
HashStage(c, prov, w, ck) ==
    \E o \in DedupOutcomes(c.hash, c.env.kind, w) :
        IF o.return
        THEN /\ last' = Call(c.d, c.scan, "returned", o.ret, c.changed, c.hash, 0, <<>>,
                             "unchanged")
             /\ UNCHANGED <<table, store>>
        ELSE ChunkStage(c, prov, o.rows, ck.chunks,
                        GenerateContextsParallel(ck.chunks, ck.needing,
                                                 LlmOf(c.env, ck.needing)))

\* KnowledgeBaseIndexer.index_document(document, enable_security_scan) for
\* the document p.d
IndexDocument(p, scan, env) ==
    IF p.v.kind # "ok"
    THEN /\ last' = Call(p.d, scan, p.v.kind, 0, FALSE, <<>>, 0, <<>>, "path")
         /\ UNCHANGED <<table, store, scanner, tracked>>
    ELSE IF scan
    THEN /\ scanner' = IF scanner = "unset" THEN "lax" ELSE scanner
         /\ tracked' = tracked \cup {p.d.file_path}
         /\ IF ~p.sc.is_safe
            THEN /\ last' = Call(p.d, scan, "SecurityError", 0, FALSE, <<>>, 0, <<>>,
                                 "blocked")
                 /\ UNCHANGED <<table, store>>
            ELSE HashStage([d |-> p.d, scan |-> scan, env |-> env,
                            changed |-> (p.sc.sanitized_content # p.d.content),
                            hash |-> Sha256(p.sc.sanitized_content)],
                           p.sc.provenance, p.w, p.clean)
    ELSE /\ UNCHANGED <<scanner, tracked>>
         /\ HashStage([d |-> p.d, scan |-> scan, env |-> env, changed |-> FALSE,
                       hash |-> Sha256(p.d.content)],
                      DefaultProvenance, p.w, p.raw)

\* table.delete(f"{col} = '{safe}'") inside the try/except of delete_by_file
\* and delete_by_project
DeleteBy(op, value, fault, w) ==
    /\ store' = IF table /\ ~fault /\ w.ok THEN TableDelete(store, w) ELSE store
    /\ last' = [NoCall EXCEPT !.op = op, !.path = value, !.out = "returned",
                              !.ret = IF table /\ ~fault /\ w.ok THEN 1 ELSE 0]
    /\ UNCHANGED <<table, scanner, tracked>>

\* KnowledgeBaseIndexer.delete_by_file
DeleteByFile(file_path, fault) ==
    DeleteBy("delete_by_file", file_path, fault,
             Lookup(WhereClauses, <<"file_path", file_path>>))

\* KnowledgeBaseIndexer.delete_by_project
DeleteByProject(project, fault) ==
    DeleteBy("delete_by_project", project, fault,
             Lookup(WhereClauses, <<"source_project", project>>))

\* the embedding application installs its own scanner in the module global
\* before the first document is indexed
InstallScanner(strict) ==
    /\ scanner = "unset"
    /\ scanner' = IF strict THEN "strict" ELSE "lax"
    /\ last' = [NoCall EXCEPT !.op = "install_scanner"]
    /\ UNCHANGED <<table, store, tracked>>

Init ==
    /\ table = FALSE
    /\ store = EmptyBag
    /\ scanner = "unset"
    /\ tracked = {}
    /\ last = NoCall
    /\ procs = <<>>
    /\ arg = <<>>
    /\ res = <<>>

DoIndexDocument ==
    /\ \E p \in PreparedDocuments, scan \in BOOLEAN, env \in Environments :
        /\ p.strict = (scanner = "strict")
        /\ IndexDocument(p, scan, env)
    /\ UNCHANGED <<arg, res, procs>>

DoDeleteByFile ==
    /\ \E f \in FileArgs, fault \in BOOLEAN : DeleteByFile(f, fault)
    /\ UNCHANGED <<arg, res, procs>>

DoDeleteByProject ==
    /\ \E project \in Projects, fault \in BOOLEAN : DeleteByProject(project, fault)
    /\ UNCHANGED <<arg, res, procs>>

DoInstallScanner ==
    /\ \E strict \in BOOLEAN : InstallScanner(strict)
    /\ UNCHANGED <<arg, res, procs>>

Next == DoIndexDocument \/ DoDeleteByFile \/ DoDeleteByProject \/ DoInstallScanner

Spec == Init /\ [][Next]_vars

(***************************************************************************)
(* _validate_path on its own: every short path string against every short  *)
(* list of bases.  The bases are Path objects as a caller passes them: a   *)
(* directory, a symlink to a directory, a relative path.                   *)
(***************************************************************************)
PathSymbols == {"/", "..", "~", "a", "s", "lnk", "out"}

BaseChoices ==
    {[abs |-> TRUE, comps |-> << <<"a">> >>], [abs |-> TRUE, comps |-> << <<"s">> >>],
     [abs |-> TRUE, comps |-> << <<"out">> >>], [abs |-> FALSE, comps |-> << <<"a">> >>]}

PathInputs ==
    {[user_path |-> p, allowed_bases |-> b] :
        p \in SeqsUpTo(PathSymbols, MaxPathLen), b \in SeqsUpTo(BaseChoices, MaxBases)}

InitPath ==
    /\ table = FALSE
    /\ store = EmptyBag
    /\ scanner = "unset"
    /\ tracked = {}
    /\ last = NoCall
    /\ procs = <<>>
    /\ arg \in PathInputs
    /\ res = <<>>

DoValidatePath ==
    /\ res = <<>>
    /\ res' = ValidatePath(arg.user_path, arg.allowed_bases)
    /\ UNCHANGED <<table, store, scanner, tracked, last, arg, procs>>

NextPath == DoValidatePath

SpecPath == InitPath /\ [][NextPath]_vars

(***************************************************************************)
(* _sanitize_sql_value and the two deletes on their own: every short       *)
(* string against a table that holds file paths and projects with quotes   *)
(* in them.                                                                *)
(***************************************************************************)
SqlSymbols == {"a", "'", "OR", "="}

SqlRow(file_path, project) == [file_path |-> file_path, source_project |-> project]

SqlTable ==
    SetToBag({SqlRow(<<"a">>, <<"a">>), SqlRow(<<"a", "'">>, <<"'">>),
              SqlRow(<<"a", "'", "OR", "'">>, <<"OR">>), SqlRow(<<"a", "a">>, <<"'">>)})
    (+) SetToBag({SqlRow(<<"a">>, <<"a">>)})

InitSql ==
    /\ table = TRUE
    /\ store = SqlTable
    /\ scanner = "unset"
    /\ tracked = {}
    /\ last = NoCall
    /\ procs = <<>>
    /\ arg \in SeqsUpTo(SqlSymbols, MaxSqlLen)
    /\ res = <<>>

DoSqlDeleteByFile ==
    /\ res = <<>>
    /\ \E fault \in BOOLEAN :
        /\ DeleteBy("delete_by_file", arg, fault, Where("file_path", arg))
        /\ res' = <<"file_path", fault>>
    /\ UNCHANGED <<arg, procs>>

DoSqlDeleteByProject ==
    /\ res = <<>>
    /\ \E fault \in BOOLEAN :
        /\ DeleteBy("delete_by_project", arg, fault, Where("source_project", arg))
        /\ res' = <<"source_project", fault>>
    /\ UNCHANGED <<arg, procs>>

NextSql == DoSqlDeleteByFile \/ DoSqlDeleteByProject

SpecSql == InitSql /\ [][NextSql]_vars

(***************************************************************************)
(* reciprocal_rank_fusion on its own: every pair of short result lists.    *)
(* A result list is what a search of the table returns: every row at most  *)
(* once, so no chunk_id twice; "" is a result without a chunk_id.  Scores  *)
(* are kept exact, as multiples of 1 / RrfDenominator(MaxList).            *)
(***************************************************************************)
MaxList == 3

RrfK == 60

ChunkIds == {"a", "b", "c"}

ResultLists ==
    {l \in SeqsUpTo(ChunkIds \cup {""}, MaxList) :
        \A i, j \in 1..Len(l) : i # j => l[i] # l[j]}

RECURSIVE RrfDenominator(_)
RrfDenominator(n) == IF n = 0 THEN 1 ELSE (RrfK + n) * RrfDenominator(n - 1)

\* a term that grows with the rank
RrfTermLinear(k, rank) == k + rank

\* 1.0 / (k + rank)
RrfTerm(k, rank) == RrfDenominator(MaxList) \div (k + rank)

\* what the loop over one list adds to rrf_scores[chunk_id]
RECURSIVE RrfSum(_, _, _, _)
RrfSum(results, chunk_id, k, rank) ==
    IF rank > Len(results) THEN 0
    ELSE (IF results[rank] = chunk_id THEN RrfTerm(k, rank) ELSE 0)
         + RrfSum(results, chunk_id, k, rank + 1)

\* rrf_scores[chunk_id] after both loops
RrfScore(chunk_id, vector_results, bm25_results, k) ==
    RrfSum(vector_results, chunk_id, k, 1) + RrfSum(bm25_results, chunk_id, k, 1)

\* the keys of rrf_scores in the order they were inserted: the chunk ids of
\* the vector results, then those of the BM25 results not yet there
RrfKeys(vector_results, bm25_results) ==
    SelectSeq(vector_results, LAMBDA c : c # "")
    \o SelectSeq(bm25_results,
                 LAMBDA c : c # "" /\ \A i \in 1..Len(vector_results) : vector_results[i] # c)

\* sorted(items, key=score, reverse=True): stable, highest score first
RECURSIVE InsertByScore(_, _)
InsertByScore(sorted, item) ==
    IF sorted = <<>> THEN <<item>>
    ELSE IF Head(sorted).rrf_score >= item.rrf_score
         THEN <<Head(sorted)>> \o InsertByScore(Tail(sorted), item)
         ELSE <<item>> \o sorted

RECURSIVE SortedByScore(_, _)
SortedByScore(items, sorted) ==
    IF items = <<>> THEN sorted
    ELSE SortedByScore(Tail(items), InsertByScore(sorted, Head(items)))

\* the rank of a chunk in a list, 0 for None
RankIn(results, chunk_id) ==
    IF \E i \in 1..Len(results) : results[i] = chunk_id
    THEN CHOOSE i \in 1..Len(results) : results[i] = chunk_id
    ELSE 0

\* reciprocal_rank_fusion(vector_results, bm25_results, k, top_k)
ReciprocalRankFusion(vector_results, bm25_results, k, top_k) ==
    LET keys == RrfKeys(vector_results, bm25_results)
        items == [i \in 1..Len(keys) |->
                     [chunk_id |-> keys[i],
                      rrf_score |-> RrfScore(keys[i], vector_results, bm25_results, k)]]
        sorted_chunk_ids == SortedByScore(items, <<>>)
        n == IF Len(sorted_chunk_ids) < top_k THEN Len(sorted_chunk_ids) ELSE top_k
    IN  [i \in 1..n |->
            [chunk_id |-> sorted_chunk_ids[i].chunk_id,
             rrf_score |-> sorted_chunk_ids[i].rrf_score,
             fusion_rank |-> i,
             vector_rank |-> RankIn(vector_results, sorted_chunk_ids[i].chunk_id),
             bm25_rank |-> RankIn(bm25_results, sorted_chunk_ids[i].chunk_id)]]

RrfInputs ==
    {[vector_results |-> v, bm25_results |-> b, top_k |-> t] :
        v \in ResultLists, b \in ResultLists, t \in 1..MaxList}

InitRrf ==
    /\ table = FALSE
    /\ store = EmptyBag
    /\ scanner = "unset"
    /\ tracked = {}
    /\ last = NoCall
    /\ procs = <<>>
    /\ arg \in RrfInputs
    /\ res = <<>>

DoReciprocalRankFusion ==
    /\ res = <<>>
    /\ res' = [fused |-> ReciprocalRankFusion(arg.vector_results, arg.bm25_results,
                                              RrfK, arg.top_k)]
    /\ UNCHANGED <<table, store, scanner, tracked, last, arg, procs>>

NextRrf == DoReciprocalRankFusion

SpecRrf == InitRrf /\ [][NextRrf]_vars

(***************************************************************************)
(* LocalReranker.  The model is loaded once and kept (res.model_loaded);   *)
(* a load that fails is tried again by the next call.  What the cross-     *)
(* encoder does in a call is an input: whether the load succeeds, and the  *)
(* scores predict returns, or that it raises.                              *)
(***************************************************************************)
RerankScores == {1, 2}

Candidates ==
    {l \in SeqsUpTo(ChunkIds, MaxList) : \A i, j \in 1..Len(l) : i # j => l[i] # l[j]}

\* chunks[:top_k]
Truncate(chunks, top_k) ==
    SubSeq(chunks, 1, IF Len(chunks) < top_k THEN Len(chunks) ELSE top_k)

\* sorted(scored_chunks, key=rerank_score, reverse=True): stable
RECURSIVE InsertByRerankScore(_, _)
InsertByRerankScore(sorted, item) ==
    IF sorted = <<>> THEN <<item>>
    ELSE IF Head(sorted).rerank_score >= item.rerank_score
         THEN <<Head(sorted)>> \o InsertByRerankScore(Tail(sorted), item)
         ELSE <<item>> \o sorted

RECURSIVE SortedByRerankScore(_, _)
SortedByRerankScore(items, sorted) ==
    IF items = <<>> THEN sorted
    ELSE SortedByRerankScore(Tail(items), InsertByRerankScore(sorted, Head(items)))

\* the try block of rerank: score, sort, cut, number
RerankScored(chunks, scores, top_k) ==
    LET scored_chunks ==
            [i \in 1..Len(chunks) |-> [chunks[i] EXCEPT !.rerank_score = scores[i]]]
        reranked == Truncate(SortedByRerankScore(scored_chunks, <<>>), top_k)
    IN  [i \in 1..Len(reranked) |-> [reranked[i] EXCEPT !.final_rank = i]]

\* a rerank whose except clause lets the error of predict through
RerankNoCatch(chunks, top_k, model_loaded, load_ok, predict) ==
    IF chunks = <<>> THEN [raised |-> FALSE, out |-> <<>>, model_loaded |-> model_loaded]
    ELSE IF ~model_loaded /\ ~load_ok
    THEN [raised |-> FALSE, out |-> Truncate(chunks, top_k), model_loaded |-> FALSE]
    ELSE IF predict.raises
    THEN [raised |-> TRUE, out |-> <<>>, model_loaded |-> TRUE]
    ELSE [raised |-> FALSE, out |-> RerankScored(chunks, predict.scores, top_k),
          model_loaded |-> TRUE]

\* LocalReranker.rerank(query, chunks, top_k)
Rerank(chunks, top_k, model_loaded, load_ok, predict) ==
    IF chunks = <<>> THEN [raised |-> FALSE, out |-> <<>>, model_loaded |-> model_loaded]
    ELSE IF ~model_loaded /\ ~load_ok
    THEN [raised |-> FALSE, out |-> Truncate(chunks, top_k), model_loaded |-> FALSE]
    ELSE IF predict.raises
    THEN [raised |-> FALSE, out |-> Truncate(chunks, top_k), model_loaded |-> TRUE]
    ELSE [raised |-> FALSE, out |-> RerankScored(chunks, predict.scores, top_k),
          model_loaded |-> TRUE]

\* a chunk as rerank is given it: no rerank_score, no final_rank yet (0)
Candidate(chunk_id) == [chunk_id |-> chunk_id, rerank_score |-> 0, final_rank |-> 0]

\* what predict can do for n pairs
Predictions(n) ==
    {[raises |-> TRUE, scores |-> <<>>]}
    \cup {[raises |-> FALSE, scores |-> sc] : sc \in {x \in SeqsUpTo(RerankScores, MaxList) : Len(x) = n}}

InitRerank ==
    /\ table = FALSE
    /\ store = EmptyBag
    /\ scanner = "unset"
    /\ tracked = {}
    /\ last = NoCall
    /\ procs = <<>>
    /\ arg = <<>>
    /\ res = [raised |-> FALSE, out |-> <<>>, model_loaded |-> FALSE]

\* LocalReranker.load_model, as RetrievalPipeline.__init__ calls it
DoLoadModel ==
    /\ \E load_ok \in BOOLEAN :
        /\ arg' = [op |-> "load_model", load_ok |-> load_ok]
        /\ res' = [raised |-> FALSE, out |-> <<>>,
                   model_loaded |-> (res.model_loaded \/ load_ok)]
    /\ UNCHANGED <<table, store, scanner, tracked, last, procs>>

DoRerank ==
    /\ \E l \in Candidates, top_k \in 1..MaxList, load_ok \in BOOLEAN :
        \E predict \in Predictions(Len(l)) :
            /\ arg' = [op |-> "rerank", chunks |-> [i \in 1..Len(l) |-> Candidate(l[i])],
                       top_k |-> top_k, model_loaded |-> res.model_loaded,
                       load_ok |-> load_ok, predict |-> predict]
            /\ res' = Rerank([i \in 1..Len(l) |-> Candidate(l[i])], top_k,
                             res.model_loaded, load_ok, predict)
    /\ UNCHANGED <<table, store, scanner, tracked, last, procs>>

NextRerank == DoLoadModel \/ DoRerank

SpecRerank == InitRerank /\ [][NextRerank]_vars

(***************************************************************************)
(* RetrievalPipeline.retrieve over every table made of three rows.  A row  *)
(* is known to the searches by its distance from the query vector, by its  *)
(* BM25 score for the query text (0: no term of the query in it) and by    *)
(* the score the cross-encoder gives it (rel).                             *)
(***************************************************************************)
RetrievalRow(chunk_id, project, file_type, file_path, distance, fts, rel) ==
    [chunk_id |-> chunk_id, source_project |-> project, file_type |-> file_type,
     file_path |-> file_path, distance |-> distance, fts |-> fts, rel |-> rel]

RetrievalRows ==
    {RetrievalRow("a", <<"P">>, <<".md">>, PathDocs, 1, 0, 1),
     RetrievalRow("b", <<"o", "'", "c">>, <<".txt">>, PathTemp, 2, 2, 2),
     RetrievalRow("c", <<"Q">>, <<".md">>, <<"/", "a", "/", "docs", "/", "y", ".md">>, 3, 1, 2)}

InjectedTail == <<"'", "OR", "'", "1", "'", "=", "'", "1">>

\* filters: None, or one column and the value asked for
NoFilter == [key |-> "", value |-> <<>>]

Filters ==
    {NoFilter}
    \cup {[key |-> "source_project", value |-> v] :
            v \in {<<"P">>, <<"o", "'", "c">>, <<"P">> \o InjectedTail}}
    \cup {[key |-> "file_path", value |-> v] : v \in {PathDocs, PathTemp, InjectedPath}}
    \cup {[key |-> "file_type", value |-> v] : v \in {<<".md">>, <<".md">> \o InjectedTail}}

\* the store's reading of f"{key} = '{value}'"
FilterWhere(filter) == ParseWhere(WhereClause(filter.key, filter.value))

\* the rows a search looks at: all of them, or those its where-clause selects
Filtered(rows, filter) ==
    IF filter = NoFilter THEN rows ELSE RowsWhere(rows, FilterWhere(filter))

\* the chunk ids of a set of rows, the row with the least sign * r[key] first
RECURSIVE Ranked(_, _, _)
Ranked(rows, key, sign) ==
    IF rows = {} THEN <<>>
    ELSE LET first == CHOOSE r \in rows : \A o \in rows : sign * r[key] <= sign * o[key]
         IN  <<first.chunk_id>> \o Ranked(rows \ {first}, key, sign)

\* VectorSearch.search(query, limit, filters): [] without a table, without a
\* query embedding, and when the store refuses the where-clause
VectorSearch(rows, embed_ok, limit, filter) ==
    IF ~table \/ ~embed_ok THEN <<>>
    ELSE IF filter # NoFilter /\ ~FilterWhere(filter).ok THEN <<>>
    ELSE Truncate(Ranked(Filtered(rows, filter), "distance", 1), limit)

\* BM25Search.search(query, limit, filters): [] without a table, without an
\* FTS index, and when the store refuses the where-clause
Bm25Search(rows, fts_ok, limit, filter) ==
    IF ~table \/ ~fts_ok THEN <<>>
    ELSE IF filter # NoFilter /\ ~FilterWhere(filter).ok THEN <<>>
    ELSE Truncate(Ranked({r \in Filtered(rows, filter) : r.fts > 0}, "fts", -1), limit)

\* the reranker of a pipeline: none (enable_reranking false), one whose model
\* cannot be loaded, one whose predict raises, one that scores
Rerankers == {"off", "load_fails", "raises", "scores"}

\* steps 3 and 4 of retrieve: fusion, reranking
FuseAndRerank(rows, vector_results, bm25_results, q) ==
    LET fused_results ==
            IF q.enable_bm25 /\ bm25_results # <<>>
            THEN LET f == ReciprocalRankFusion(vector_results, bm25_results, RrfK, MaxList)
                 IN  [i \in 1..Len(f) |-> f[i].chunk_id]
            ELSE Truncate(vector_results, MaxList)
        rel(id) == (CHOOSE r \in rows : r.chunk_id = id).rel
        predict == [raises |-> (q.reranker = "raises"),
                    scores |-> [i \in 1..Len(fused_results) |-> rel(fused_results[i])]]
        reranked == Rerank([i \in 1..Len(fused_results) |-> Candidate(fused_results[i])],
                           q.top_k, FALSE, q.reranker # "load_fails", predict).out
    IN  IF q.reranker # "off"
        THEN [i \in 1..Len(reranked) |-> reranked[i].chunk_id]
        ELSE Truncate(fused_results, q.top_k)

\* RetrievalPipeline.retrieve(query, top_k, vector_limit, bm25_limit,
\* fusion_limit, enable_bm25, filters): the chunk ids of the results
Retrieve(rows, q) ==
    FuseAndRerank(rows,
                  VectorSearch(rows, q.embed_ok, MaxList, q.filters),
                  IF q.enable_bm25 THEN Bm25Search(rows, q.fts_ok, MaxList, q.filters)
                  ELSE <<>>,
                  q)

Queries ==
    {[embed_ok |-> e, enable_bm25 |-> b, fts_ok |-> f, reranker |-> r, top_k |-> k,
      filters |-> w] :
        e \in BOOLEAN, b \in BOOLEAN, f \in BOOLEAN, r \in Rerankers, k \in 1..MaxList,
        w \in Filters}

InitRetrieve ==
    /\ table \in BOOLEAN
    /\ store \in {SetToBag(rows) : rows \in SUBSET RetrievalRows}
    /\ table \/ store = EmptyBag
    /\ scanner = "unset"
    /\ tracked = {}
    /\ last = NoCall
    /\ procs = <<>>
    /\ arg \in Queries
    /\ res = <<>>

DoRetrieve ==
    /\ res = <<>>
    /\ res' = [out |-> Retrieve(BagToSet(store), arg)]
    /\ UNCHANGED <<table, store, scanner, tracked, last, arg, procs>>

NextRetrieve == DoRetrieve

SpecRetrieve == InitRetrieve /\ [][NextRetrieve]_vars

(***************************************************************************)
(* Two index_document calls for one file_path at the same time, on one     *)
(* table, without a scan and without a failure.  A call is at one of its   *)
(* store operations: the lookup of a row of the file, the count, the       *)
(* delete, the batch write; each operation is atomic.                      *)
(***************************************************************************)
Writers == {1, 2}

WriterContents == {ContentClean, ContentHigh, ContentMedium}

\* the rows index_document writes for a document when nothing fails
RowsOf(d) ==
    LET ck == Chunked(d.content, Suffix(d.file_path))
        none == [kind |-> "none", at |-> 0]
        ccs == GenerateContextsParallel(ck.chunks, ck.needing, LlmOf(none, ck.needing))
    IN  IndexChunksData(ccs, EmbedBatch(ccs, EmbedOf(none, Len(ccs))), d.file_path,
                        d.project, Suffix(d.file_path), Sha256(d.content),
                        DefaultProvenance)

WriterRows ==
    {<<c, RowsOf(Doc(PathDocs, <<"P">>, c))>> : c \in WriterContents}

Writer(pc, content, ret) == [pc |-> pc, content |-> content, ret |-> ret]

InitConcurrent ==
    /\ table \in BOOLEAN
    /\ store \in {EmptyBag} \cup {TableAdd(EmptyBag, Lookup(WriterRows, c)) : c \in WriterContents}
    /\ table \/ store = EmptyBag
    /\ scanner = "unset"
    /\ tracked = {}
    /\ last = NoCall
    /\ arg = <<>>
    /\ res = <<>>
    /\ procs \in [Writers -> {Writer("lookup", c, 0) : c \in WriterContents}]

\* table.search().where(file_path = ...).limit(1).to_list() and the
\* comparison of the hash of the row found
LookupExisting(w) ==
    /\ procs[w].pc = "lookup"
    /\ \/ /\ ~table \/ FileRows(store, PathDocs) = {}
          /\ procs' = [procs EXCEPT ![w].pc = "add"]
       \/ \E r \in FileRows(store, PathDocs) :
            procs' = [procs EXCEPT ![w].pc =
                        IF r.content_hash = Sha256(procs[w].content)
                        THEN "count_unchanged" ELSE "count_changed"]
    /\ UNCHANGED <<table, store, scanner, tracked, last, arg, res>>

\* table.count_rows(where)
Count(w) ==
    /\ procs[w].pc \in {"count_unchanged", "count_changed"}
    /\ procs' = [procs EXCEPT ![w] =
                    IF procs[w].pc = "count_unchanged"
                    THEN Writer("done", procs[w].content, FileCount(store, PathDocs))
                    ELSE Writer("delete", procs[w].content, 0)]
    /\ UNCHANGED <<table, store, scanner, tracked, last, arg, res>>

\* table.delete(where)
Delete(w) ==
    /\ procs[w].pc = "delete"
    /\ store' = TableDelete(store, Lookup(WhereClauses, <<"file_path", PathDocs>>))
    /\ procs' = [procs EXCEPT ![w].pc = "add"]
    /\ UNCHANGED <<table, scanner, tracked, last, arg, res>>

\* chunking, contexts and embeddings, then create_table(data) or table.add(data)
Add(w) ==
    /\ procs[w].pc = "add"
    /\ table' = TRUE
    /\ store' = TableAdd(store, Lookup(WriterRows, procs[w].content))
    /\ procs' = [procs EXCEPT ![w] =
                    Writer("done", procs[w].content,
                           Len(Lookup(WriterRows, procs[w].content)))]
    /\ UNCHANGED <<scanner, tracked, last, arg, res>>

DoLookup == \E w \in Writers : LookupExisting(w)

DoCount == \E w \in Writers : Count(w)

DoDelete == \E w \in Writers : Delete(w)

DoAdd == \E w \in Writers : Add(w)

NextConcurrent == DoLookup \/ DoCount \/ DoDelete \/ DoAdd

SpecConcurrent == InitConcurrent /\ [][NextConcurrent]_vars

(***************************************************************************)
(* index_document with the scan on, for documents without an injection     *)
(* pattern, on a fresh store and with nothing failing: the scenario of one *)
(* document indexed once, for some paths under the allowed base, some      *)
(* projects and every short content.                                       *)
(***************************************************************************)
MaxParas == 2

\* /allowed/a.md: a markdown file directly under the allowed base
PathAllowed == <<"/", "a", "/", "a", ".md">>

\* "Hello world. " * 100: one paragraph of 1300 characters
ContentHello == << Para("none", 1300, FALSE) >>

ScenarioPaths ==
    {PathAllowed, PathDocs, <<"/", "a", "/", "a", ".py">>, <<"/", "a", "/", "a", ".txt">>,
     <<"/", "a", "/", "temp", "/", "a", ".txt">>}

ScenarioContents ==
    SeqsUpTo({Para("none", n, hd) : n \in {400, 1300}, hd \in BOOLEAN}, MaxParas) \ {<<>>}

Scenarios ==
    {Doc(f, project, c) : f \in ScenarioPaths, project \in Projects, c \in ScenarioContents}

InitScenario ==
    /\ table = FALSE
    /\ store = EmptyBag
    /\ scanner = "unset"
    /\ tracked = {}
    /\ last = NoCall
    /\ procs = <<>>
    /\ arg \in Scenarios
    /\ res = <<>>

DoIndexScenario ==
    /\ last = NoCall
    /\ IndexDocument(Prepare(arg, FALSE, ScanDocument(arg.content, arg.file_path, "FILE", FALSE)),
                     TRUE, [kind |-> "none", at |-> 0])
    /\ UNCHANGED <<arg, res, procs>>

NextScenario == DoIndexScenario

SpecScenario == InitScenario /\ [][NextScenario]_vars

(***************************************************************************)
(* CompositeNotifier.  arg holds the composite (its list of notifiers),    *)
(* res the last call made on it: the method, its arguments, whether it     *)
(* raised, and the calls it made on the children in the order it made      *)
(* them.  Which children raise in a call is an input.                      *)
(***************************************************************************)
MaxNotifiers == 3

Children == {"console", "webhook", "null"}

\* the arguments of notify(event), start(file_path, total_stages) and
\* finish(success, message)
NotifierCalls ==
    {[op |-> "notify", args |-> <<stage>>] : stage \in {"LOADING", "CHUNKING"}}
    \cup {[op |-> "start", args |-> <<PathDocs, 6>>]}
    \cup {[op |-> "finish", args |-> <<success, message>>] :
            success \in BOOLEAN, message \in {"", "done"}}

ChildCall(child, op, args, raised) ==
    [child |-> child, op |-> op, args |-> args, raised |-> raised]

\* a loop without the try/except: the first child that raises ends the call
RECURSIVE FanOutStopOnError(_, _, _, _, _)
FanOutStopOnError(notifiers, op, args, raising, calls) ==
    IF notifiers = <<>> THEN [raised |-> FALSE, calls |-> calls]
    ELSE IF Head(notifiers) \in raising
    THEN [raised |-> TRUE,
          calls |-> Append(calls, ChildCall(Head(notifiers), op, args, TRUE))]
    ELSE FanOutStopOnError(Tail(notifiers), op, args, raising,
                           Append(calls, ChildCall(Head(notifiers), op, args, FALSE)))

\* for n in self.notifiers: try: n.<op>(*args) except Exception: pass
RECURSIVE FanOut(_, _, _, _, _)
FanOut(notifiers, op, args, raising, calls) ==
    IF notifiers = <<>> THEN [raised |-> FALSE, calls |-> calls]
    ELSE FanOut(Tail(notifiers), op, args, raising,
                Append(calls, ChildCall(Head(notifiers), op, args,
                                        Head(notifiers) \in raising)))

\* list.remove: the first entry equal to the notifier goes
RECURSIVE RemoveFirst(_, _)
RemoveFirst(notifiers, notifier) ==
    IF notifiers = <<>> THEN <<>>
    ELSE IF Head(notifiers) = notifier THEN Tail(notifiers)
    ELSE <<Head(notifiers)>> \o RemoveFirst(Tail(notifiers), notifier)

NotifierResult(op, args, raised, calls) ==
    [op |-> op, args |-> args, raised |-> raised, calls |-> calls]

InitNotifier ==
    /\ table = FALSE
    /\ store = EmptyBag
    /\ scanner = "unset"
    /\ tracked = {}
    /\ last = NoCall
    /\ procs = <<>>
    /\ arg \in {[notifiers |-> l] : l \in SeqsUpTo(Children, 1)}
    /\ res = NotifierResult("init", <<>>, FALSE, <<>>)

\* CompositeNotifier.notify, start, finish
DoFanOut ==
    /\ \E c \in NotifierCalls, raising \in SUBSET Children :
        LET r == FanOut(arg.notifiers, c.op, c.args, raising, <<>>)
        IN  res' = NotifierResult(c.op, c.args, r.raised, r.calls)
    /\ UNCHANGED <<table, store, scanner, tracked, last, procs, arg>>

\* CompositeNotifier.add
DoAddNotifier ==
    /\ Len(arg.notifiers) < MaxNotifiers
    /\ \E n \in Children :
        /\ arg' = [notifiers |-> Append(arg.notifiers, n)]
        /\ res' = NotifierResult("add", <<n>>, FALSE, <<>>)
    /\ UNCHANGED <<table, store, scanner, tracked, last, procs>>

\* CompositeNotifier.remove
DoRemoveNotifier ==
    /\ \E n \in Children :
        /\ arg' = [notifiers |-> RemoveFirst(arg.notifiers, n)]
        /\ res' = NotifierResult("remove", <<n>>, FALSE, <<>>)
    /\ UNCHANGED <<table, store, scanner, tracked, last, procs>>

NextNotifier == DoFanOut \/ DoAddNotifier \/ DoRemoveNotifier

SpecNotifier == InitNotifier /\ [][NextNotifier]_vars

(***************************************************************************)
(* generate_contexts_parallel as the event loop runs it.  arg is the call  *)
(* (the chunks, max_workers); procs the state of _process_all: where every *)
(* task stands, the permits of the semaphore, the results in the order the *)
(* tasks completed (done: not yet taken by the as_completed loop;          *)
(* completion: all of them), generated_chunks, progress_state and the      *)
(* CONTEXT events given to the notifier; res the list returned, with the   *)
(* records index_document then builds from it.                             *)
(***************************************************************************)
MaxChunks == 3

MaxWorkers == 2

\* the text of the chunk at a position: a paragraph, or a heading
ChunkText(idx, needs) == << Para("none", 1200 + idx, ~needs) >>

ContextChunks(needs) ==
    [i \in 1..Len(needs) |-> [text |-> ChunkText(i - 1, needs[i]), chunk_index |-> i - 1]]

\* f"{context}\n\n{chunk}", or the chunk alone
ContextualText(context, chunk) == [context |-> context, chunk |-> chunk]

ContextualChunk(original_chunk, generated_context, chunk_index) ==
    [none |-> FALSE, original_chunk |-> original_chunk,
     generated_context |-> generated_context,
     contextual_chunk |-> ContextualText(generated_context, original_chunk),
     chunk_index |-> chunk_index]

NoChunk ==
    [none |-> TRUE, original_chunk |-> <<>>, generated_context |-> "",
     contextual_chunk |-> ContextualText("", <<>>), chunk_index |-> 0]

\* what a record of index_chunks takes from a contextual chunk and its vector
ChunkRecords(contextual_chunks, embeddings) ==
    LET kept == SelectSeq([i \in 1..Len(contextual_chunks) |-> i],
                          LAMBDA i : ~embeddings[i].none)
    IN  [n \in 1..Len(kept) |->
            [chunk_index |-> contextual_chunks[kept[n]].chunk_index,
             original_chunk |-> contextual_chunks[kept[n]].original_chunk,
             contextual_chunk |-> contextual_chunks[kept[n]].contextual_chunk,
             vector |-> embeddings[kept[n]]]]

\* what _generate_context_async returns for its chunk and chunk_index
GenerateContextAsync(chunk, chunk_index, outcome) ==
    IF outcome = "ok" THEN ContextualChunk(chunk, "llm", chunk_index) ELSE NoChunk

\* chunks_needing_context (the positions) and chunks_skipped
ChunksNeedingContext(chunks) ==
    {i - 1 : i \in {j \in 1..Len(chunks) : ShouldGenerateContext(chunks[j].text)}}

ChunksSkipped(chunks) ==
    LET skipped == SelectSeq(chunks, LAMBDA c : ~ShouldGenerateContext(c.text))
    IN  [i \in 1..Len(skipped) |->
            ContextualChunk(skipped[i].text, "", skipped[i].chunk_index)]

\* a semaphore that lets every task in
CanAcquireAlways(permits) == TRUE

\* asyncio.Semaphore: a task enters when a permit is left
CanAcquire(permits) == permits > 0

\* a semaphore whose permit comes back only from a request that succeeded
ReleaseOnSuccess(permits, outcome) == IF outcome = "ok" THEN permits + 1 ELSE permits

\* the end of "async with semaphore", by return from either branch
Release(permits, outcome) == permits + 1

\* a loop that numbers the results as they arrive
CollectedRenumbered(generated_chunks, result) ==
    IF result.none THEN generated_chunks
    ELSE Append(generated_chunks, [result EXCEPT !.chunk_index = Len(generated_chunks)])

\* result = await coro; if result is not None: generated_chunks.append(result)
Collected(generated_chunks, result) ==
    IF result.none THEN generated_chunks ELSE Append(generated_chunks, result)

ContextEvent(current, total) == [stage |-> "CONTEXT", current |-> current, total |-> total]

ContextCalls ==
    {[chunks |-> ContextChunks(needs), max_workers |-> w] :
        needs \in SeqsUpTo(BOOLEAN, MaxChunks), w \in 1..MaxWorkers}

\* _process_all up to the creation of the tasks
ProcessAllStart(chunks, max_workers) ==
    [status |-> [t \in ChunksNeedingContext(chunks) |-> "waiting"],
     result |-> [t \in ChunksNeedingContext(chunks) |-> NoChunk],
     outcome |-> [t \in ChunksNeedingContext(chunks) |-> ""],
     permits |-> max_workers,
     done |-> <<>>,
     completion |-> <<>>,
     generated_chunks |-> <<>>,
     completed |-> 0,
     events |-> << ContextEvent(0, Cardinality(ChunksNeedingContext(chunks))) >>,
     returned |-> FALSE]

InitContext ==
    /\ table = FALSE
    /\ store = EmptyBag
    /\ scanner = "unset"
    /\ tracked = {}
    /\ last = NoCall
    /\ arg \in ContextCalls
    /\ res = <<>>
    /\ procs = ProcessAllStart(arg.chunks, arg.max_workers)

InFlight == {t \in DOMAIN procs.status : procs.status[t] = "in_flight"}

\* a task passes "async with semaphore" and sends its request
Acquire(t) ==
    /\ procs.status[t] = "waiting"
    /\ CanAcquire(procs.permits)
    /\ procs' = [procs EXCEPT !.status[t] = "in_flight", !.permits = @ - 1]
    /\ UNCHANGED <<table, store, scanner, tracked, last, arg, res>>

\* the request of a task returns or fails; the task ends with its result
Respond(t, outcome) ==
    /\ procs.status[t] = "in_flight"
    /\ procs' = [procs EXCEPT
                    !.status[t] = "done",
                    !.outcome[t] = outcome,
                    !.result[t] = GenerateContextAsync(arg.chunks[t + 1].text, t, outcome),
                    !.permits = Release(@, outcome),
                    !.done = Append(@, t),
                    !.completion = Append(@, t)]
    /\ UNCHANGED <<table, store, scanner, tracked, last, arg, res>>

\* one turn of the loop over as_completed(tasks)
Collect ==
    /\ procs.done # <<>>
    /\ procs' = [procs EXCEPT
                    !.status[Head(procs.done)] = "collected",
                    !.done = Tail(@),
                    !.generated_chunks = Collected(@, procs.result[Head(procs.done)]),
                    !.completed = @ + 1,
                    !.events = Append(@, ContextEvent(procs.completed + 1,
                                                      Cardinality(DOMAIN procs.status)))]
    /\ UNCHANGED <<table, store, scanner, tracked, last, arg, res>>

\* the loop is over: all_chunks is returned, and index_document embeds the
\* contextual texts and builds the records
ReturnAllChunks ==
    /\ ~procs.returned
    /\ \A t \in DOMAIN procs.status : procs.status[t] = "collected"
    /\ procs' = [procs EXCEPT !.returned = TRUE]
    /\ LET all_chunks == procs.generated_chunks \o ChunksSkipped(arg.chunks)
           contextual_texts == [i \in 1..Len(all_chunks) |-> all_chunks[i].contextual_chunk]
           embeddings == EmbedBatch(contextual_texts,
                                    [i \in 1..Len(all_chunks) |-> ExpectedDimensions])
       IN  res' = [all_chunks |-> all_chunks,
                   data |-> ChunkRecords(all_chunks, embeddings)]
    /\ UNCHANGED <<table, store, scanner, tracked, last, arg>>

DoAcquire == \E t \in DOMAIN procs.status : Acquire(t)

DoRespond == \E t \in DOMAIN procs.status, outcome \in LlmOutcomes : Respond(t, outcome)

NextContext == DoAcquire \/ DoRespond \/ Collect \/ ReturnAllChunks

SpecContext == InitContext /\ [][NextContext]_vars

\* every request sent returns or fails, and the event loop runs a task or a
\* loop turn that can run
SpecContextFair ==
    /\ InitContext
    /\ [][NextContext]_vars
    /\ WF_vars(DoAcquire)
    /\ WF_vars(DoRespond)
    /\ WF_vars(Collect)
    /\ WF_vars(ReturnAllChunks)

(***************************************************************************)
(* The BM25Search of one pipeline over several retrieve calls.  procs is   *)
(* the searcher (fts_enabled) with the count of the calls made and of the  *)
(* create_index calls that returned True; arg the query without its        *)
(* enable_bm25; res the last call: its query, what the store did to the    *)
(* index creation and to the lexical search, the create_index calls it     *)
(* made, and what retrieve returned.                                       *)
(***************************************************************************)
MaxCalls == 3

\* table.create_fts_index: creates the index, finds it there, or fails
CreateOutcomes == {"created", "exists", "fails"}

\* a create_index that does not remember the index
CreateIndexNoFlag(tbl, outcome) == [ok |-> tbl /\ outcome # "fails", fts_enabled |-> FALSE]

\* BM25Search.create_index: what it returns, and fts_enabled when it sets it
CreateIndex(tbl, outcome) ==
    [ok |-> tbl /\ outcome # "fails", fts_enabled |-> tbl /\ outcome # "fails"]

\* BM25Search.search on a searcher: the results, the searcher after the
\* call, the create_index calls made
Search(rows, fts_enabled, create, search_ok, limit, filter) ==
    IF ~table THEN [results |-> <<>>, fts_enabled |-> fts_enabled, attempts |-> 0, created |-> 0]
    ELSE IF ~fts_enabled /\ ~CreateIndex(table, create).ok
    THEN [results |-> <<>>, fts_enabled |-> CreateIndex(table, create).fts_enabled,
          attempts |-> 1, created |-> 0]
    ELSE [results |-> Bm25Search(rows, search_ok, limit, filter),
          fts_enabled |-> fts_enabled \/ CreateIndex(table, create).fts_enabled,
          attempts |-> IF fts_enabled THEN 0 ELSE 1,
          created |-> IF fts_enabled THEN 0 ELSE 1]

\* retrieve on the pipeline's searcher
RetrieveWith(rows, q, bm25) ==
    FuseAndRerank(rows, VectorSearch(rows, q.embed_ok, MaxList, q.filters), bm25, q)

Bm25Queries ==
    {[embed_ok |-> e, enable_bm25 |-> FALSE, fts_ok |-> TRUE, reranker |-> r, top_k |-> k,
      filters |-> NoFilter] :
        e \in BOOLEAN, r \in {"off", "scores"}, k \in {1, MaxList}}

InitBm25 ==
    /\ table \in BOOLEAN
    /\ store \in {SetToBag(rows) : rows \in {{}, RetrievalRows}}
    /\ table \/ store = EmptyBag
    /\ scanner = "unset"
    /\ tracked = {}
    /\ last = NoCall
    /\ arg \in Bm25Queries
    /\ res = <<>>
    /\ procs = [fts_enabled |-> FALSE, calls |-> 0, created |-> 0]

RetrieveCall(enable_bm25, create, search_ok) ==
    /\ procs.calls < MaxCalls
    /\ LET q == [arg EXCEPT !.enable_bm25 = enable_bm25, !.fts_ok = search_ok]
           bm25 == IF enable_bm25
                   THEN Search(BagToSet(store), procs.fts_enabled, create, search_ok,
                               MaxList, q.filters)
                   ELSE [results |-> <<>>, fts_enabled |-> procs.fts_enabled,
                         attempts |-> 0, created |-> 0]
       IN  /\ res' = [q |-> q, create |-> create, search_ok |-> search_ok,
                      fts_before |-> procs.fts_enabled,
                      attempts |-> bm25.attempts,
                      out |-> RetrieveWith(BagToSet(store), q, bm25.results)]
           /\ procs' = [fts_enabled |-> bm25.fts_enabled,
                        calls |-> procs.calls + 1,
                        created |-> procs.created + bm25.created]
    /\ UNCHANGED <<table, store, scanner, tracked, last, arg>>

DoRetrieveCall ==
    \E enable_bm25 \in BOOLEAN, create \in CreateOutcomes, search_ok \in BOOLEAN :
        RetrieveCall(enable_bm25, create, search_ok)

NextBm25 == DoRetrieveCall

SpecBm25 == InitBm25 /\ [][NextBm25]_vars

(***************************************************************************)
(* One WebhookNotifier called from several threads.  arg is its            *)
(* configuration (notify_stages, min_interval); procs holds where every    *)
(* thread stands in its call, _lock (its holder, 0 when free), _last_send, *)
(* _start_time (set or None) and the POSTs issued so far: for each the     *)
(* call that issued it, its stage, the clock value notify read for it, and *)
(* whether it runs on a thread of its own (_send_async) or in the caller   *)
(* (_send).                                                                *)
(***************************************************************************)
Threads == {1, 2}

MaxClock == 5

WebhookStages == {"LOADING", "CONTEXT", "COMPLETE", "ERROR"}

\* notify_stages: None, or a list of stages
AnyStage == [all |-> TRUE, stages |-> {}]

NotifyStages ==
    {AnyStage}
    \cup {[all |-> FALSE, stages |-> S] :
            S \in {{}, {"CONTEXT"}, {"LOADING", "CONTEXT", "COMPLETE"}, {"COMPLETE", "ERROR"}}}

WebhookConfigs == {[notify_stages |-> n, min_interval |-> m] : n \in NotifyStages, m \in {0, 2}}

\* WebhookNotifier._should_notify
ShouldNotify(notify_stages, stage) == notify_stages.all \/ stage \in notify_stages.stages

\* the guard at the head of notify
NotifySkips(notify_stages, stage) ==
    ~ShouldNotify(notify_stages, stage) \/ stage \in {"COMPLETE", "ERROR"}

\* a lock that is never held
CanLockAlways(lock) == TRUE

\* with self._lock: entered when no thread holds it
CanLock(lock) == lock = 0

\* now - self._last_send < self.min_interval
RateLimited(now, last_send, min_interval) == now - last_send < min_interval

Post(op, stage, at, detached) == [op |-> op, stage |-> stage, at |-> at, detached |-> detached]

InitWebhook ==
    /\ table = FALSE
    /\ store = EmptyBag
    /\ scanner = "unset"
    /\ tracked = {}
    /\ last = NoCall
    /\ arg \in WebhookConfigs
    /\ res = <<>>
    /\ procs = [pc |-> [t \in Threads |-> "idle"],
                stage |-> [t \in Threads |-> ""],
                now |-> [t \in Threads |-> 0],
                lock |-> 0,
                last_send |-> 0,
                start_time |-> FALSE,
                posts |-> <<>>,
                calls |-> 0]

\* notify(event): the stage test, before the lock
NotifyEnter(t, stage) ==
    /\ procs.pc[t] = "idle"
    /\ procs.calls < MaxCalls
    /\ procs' = IF NotifySkips(arg.notify_stages, stage)
                THEN [procs EXCEPT !.calls = @ + 1]
                ELSE [procs EXCEPT !.calls = @ + 1, !.pc[t] = "lock", !.stage[t] = stage]
    /\ UNCHANGED <<table, store, scanner, tracked, last, arg, res>>

\* with self._lock:
NotifyAcquire(t) ==
    /\ procs.pc[t] = "lock"
    /\ CanLock(procs.lock)
    /\ procs' = [procs EXCEPT !.lock = t, !.pc[t] = "locked"]
    /\ UNCHANGED <<table, store, scanner, tracked, last, arg, res>>

\* now = time.time(), and the return of a call that comes too early
NotifyReadClock(t, now) ==
    /\ procs.pc[t] = "locked"
    /\ procs' = IF RateLimited(now, procs.last_send, arg.min_interval)
                THEN [procs EXCEPT !.lock = 0, !.pc[t] = "idle", !.stage[t] = ""]
                ELSE [procs EXCEPT !.now[t] = now, !.pc[t] = "stamp"]
    /\ UNCHANGED <<table, store, scanner, tracked, last, arg, res>>

\* self._last_send = now, and the end of the with block
NotifyStamp(t) ==
    /\ procs.pc[t] = "stamp"
    /\ procs' = [procs EXCEPT !.last_send = procs.now[t], !.lock = 0, !.pc[t] = "send"]
    /\ UNCHANGED <<table, store, scanner, tracked, last, arg, res>>

\* self._send_async(progress payload)
NotifySendAsync(t) ==
    /\ procs.pc[t] = "send"
    /\ procs' = [procs EXCEPT
                    !.posts = Append(@, Post("notify", procs.stage[t], procs.now[t], TRUE)),
                    !.pc[t] = "idle", !.stage[t] = "", !.now[t] = 0]
    /\ UNCHANGED <<table, store, scanner, tracked, last, arg, res>>

\* start(file_path, total_stages)
StartCall(t) ==
    /\ procs.pc[t] = "idle"
    /\ procs.calls < MaxCalls
    /\ procs' = [procs EXCEPT
                    !.calls = @ + 1,
                    !.start_time = TRUE,
                    !.posts = IF ShouldNotify(arg.notify_stages, "LOADING")
                              THEN Append(@, Post("start", "LOADING", 0, TRUE))
                              ELSE @]
    /\ UNCHANGED <<table, store, scanner, tracked, last, arg, res>>

\* finish(success, message) up to its self._send(...), which the caller runs
FinishEnter(t, success) ==
    /\ procs.pc[t] = "idle"
    /\ procs.calls < MaxCalls
    /\ LET target == IF success THEN "COMPLETE" ELSE "ERROR"
       IN  procs' = IF ShouldNotify(arg.notify_stages, target)
                    THEN [procs EXCEPT !.calls = @ + 1, !.pc[t] = "posting",
                                       !.posts = Append(@, Post("finish", target, 0, FALSE))]
                    ELSE [procs EXCEPT !.calls = @ + 1, !.start_time = FALSE]
    /\ UNCHANGED <<table, store, scanner, tracked, last, arg, res>>

\* urlopen answers, fails or times out; finish goes on and returns
FinishPosted(t) ==
    /\ procs.pc[t] = "posting"
    /\ procs' = [procs EXCEPT !.pc[t] = "idle", !.start_time = FALSE]
    /\ UNCHANGED <<table, store, scanner, tracked, last, arg, res>>

DoNotifyEnter == \E t \in Threads, stage \in WebhookStages : NotifyEnter(t, stage)

DoNotifyAcquire == \E t \in Threads : NotifyAcquire(t)

DoNotifyReadClock == \E t \in Threads, now \in 0..MaxClock : NotifyReadClock(t, now)

DoNotifyStamp == \E t \in Threads : NotifyStamp(t)

DoNotifySendAsync == \E t \in Threads : NotifySendAsync(t)

DoStartCall == \E t \in Threads : StartCall(t)

DoFinishEnter == \E t \in Threads, success \in BOOLEAN : FinishEnter(t, success)

DoFinishPosted == \E t \in Threads : FinishPosted(t)

NextWebhook ==
    \/ DoNotifyEnter
    \/ DoNotifyAcquire
    \/ DoNotifyReadClock
    \/ DoNotifyStamp
    \/ DoNotifySendAsync
    \/ DoStartCall
    \/ DoFinishEnter
    \/ DoFinishPosted

SpecWebhook == InitWebhook /\ [][NextWebhook]_vars

(***************************************************************************)
(* detect_injections character by character.  A content is a sequence of   *)
(* characters: the letters of two phrases the regexes match ("i" "g" of    *)
(* instruction_override, "a" of indirect_manipulation), a letter "x" of no *)
(* phrase, the Cyrillic homoglyph of "i" and the zero-width space.  The    *)
(* two ends of a [QUOTED_CONTENT: "..."] marker are the characters "[Q"    *)
(* and "Q]".  A position is 1 + match.start().  arg is the content, res    *)
(* the InjectionDetectionResult.                                           *)
(***************************************************************************)
MaxText == 4

Glyphs == {"i", "g", "a", "x", "CYR_I", "ZWSP"}

TextPatterns ==
    << [category |-> "instruction_override", severity |-> "CRITICAL", text |-> <<"i", "g">>],
       [category |-> "indirect_manipulation", severity |-> "MEDIUM", text |-> <<"a">>] >>

\* HOMOGLYPHS: what a character becomes
NormalizeChar(c) ==
    CASE c = "CYR_I" -> <<"i">> [] c = "ZWSP" -> <<>> [] OTHER -> <<c>>

\* normalize_unicode
RECURSIVE NormalizeUnicode(_)
NormalizeUnicode(text) ==
    IF text = <<>> THEN <<>> ELSE NormalizeChar(Head(text)) \o NormalizeUnicode(Tail(text))

\* match.group()[:100]
MatchedTextLimit == 100

MatchedText(group) ==
    IF Len(group) > MatchedTextLimit THEN SubSeq(group, 1, MatchedTextLimit) ELSE group

\* re.finditer(pattern, text): the matches from the left, none overlapping
RECURSIVE FindIter(_, _, _)
FindIter(pat, text, i) ==
    IF i + Len(pat.text) - 1 > Len(text) THEN <<>>
    ELSE IF SubSeq(text, i, i + Len(pat.text) - 1) = pat.text
         THEN << [category |-> pat.category, severity |-> pat.severity,
                  matched_text |-> MatchedText(pat.text), position |-> i] >>
              \o FindIter(pat, text, i + Len(pat.text))
         ELSE FindIter(pat, text, i + 1)

\* detected_patterns: every pattern in turn, on the normalized content
RECURSIVE DetectedInText(_, _)
DetectedInText(normalized_content, k) ==
    IF k > Len(TextPatterns) THEN <<>>
    ELSE FindIter(TextPatterns[k], normalized_content, 1)
         \o DetectedInText(normalized_content, k + 1)

\* f'[QUOTED_CONTENT: "{matched_text}"]'
Marker(matched_text) == <<"[Q">> \o matched_text \o <<"Q]">>

\* str.replace(old, new, 1)
RECURSIVE ReplaceOnce(_, _, _, _)
ReplaceOnce(text, old, new, i) ==
    IF i + Len(old) - 1 > Len(text) THEN text
    ELSE IF SubSeq(text, i, i + Len(old) - 1) = old
         THEN SubSeq(text, 1, i - 1) \o new \o SubSeq(text, i + Len(old), Len(text))
         ELSE ReplaceOnce(text, old, new, i + 1)

\* _sanitize_content on characters
RECURSIVE SanitizeText(_, _)
SanitizeText(content, sorted) ==
    IF sorted = <<>> THEN content
    ELSE SanitizeText(ReplaceOnce(content, Head(sorted).matched_text,
                                  Marker(Head(sorted).matched_text), 1),
                      Tail(sorted))

\* detect_injections on characters
DetectInjectionsText(content, strict) ==
    LET normalized_content == NormalizeUnicode(content)
        detected == DetectedInText(normalized_content, 1)
        risk == HighestSeverity(detected, "CLEAN")
    IN  [is_safe |-> IsSafe(strict, risk),
         risk_level |-> risk,
         detected_patterns |-> detected,
         sanitized_content |->
            IF detected # <<>>
            THEN SanitizeText(content,
                              SortedByPositionDesc(detected, Len(normalized_content)))
            ELSE content]

InitSanitize ==
    /\ table = FALSE
    /\ store = EmptyBag
    /\ scanner = "unset"
    /\ tracked = {}
    /\ last = NoCall
    /\ procs = <<>>
    /\ arg \in SeqsUpTo(Glyphs, MaxText)
    /\ res = <<>>

DoDetectInjectionsText ==
    /\ res = <<>>
    /\ \E strict \in BOOLEAN : res' = DetectInjectionsText(arg, strict)
    /\ UNCHANGED <<table, store, scanner, tracked, last, arg, procs>>

NextSanitize == DoDetectInjectionsText

SpecSanitize == InitSanitize /\ [][NextSanitize]_vars

(***************************************************************************)
(* index_document called again and again for one file, with the same or    *)
(* with another content, by an indexer with the scanner of the repository. *)
(* arg is the file and enable_security_scan; res what went wrong in the    *)
(* last call.                                                              *)
(***************************************************************************)
InitReindex ==
    /\ table = FALSE
    /\ store = EmptyBag
    /\ scanner = "unset"
    /\ tracked = {}
    /\ last = NoCall
    /\ procs = <<>>
    /\ arg \in {[file_path |-> f, scan |-> b] : f \in {PathDocs, PathTemp}, b \in BOOLEAN}
    /\ res = <<>>

DoReindex ==
    /\ \E p \in PreparedDocuments, env \in Environments :
        /\ p.d.file_path = arg.file_path
        /\ ~p.strict
        /\ IndexDocument(p, arg.scan, env)
        /\ res' = [env |-> env]
    /\ UNCHANGED <<arg, procs>>

NextReindex == DoReindex

SpecReindex == InitReindex /\ [][NextReindex]_vars

(***************************************************************************)
(* Properties.                                                             *)
(***************************************************************************)
\* C1: a call of index_document for a file whose stored rows all carry the
\* hash of the content presented adds no row, deletes no row and returns the
\* number of rows the file has.
C1_IdempotentReindex ==
    [][(/\ last'.op = "index_document"
        /\ last'.out = "returned"
        /\ FileRows(store, last'.path) # {}
        /\ \A r \in FileRows(store, last'.path) : r.content_hash = last'.hash)
       => (store' = store /\ last'.ret = FileCount(store, last'.path))]_vars

\* C2: once index_document has returned for a file, no row of that file
\* carries the hash of another content than the one just presented.
C2_AtomicContentUpdate ==
    (last.op = "index_document" /\ last.out = "returned")
    => \A r \in FileRows(store, last.path) : r.content_hash = last.hash

\* C3: _validate_path returns the resolved path exactly when the resolved
\* path is equal to or under the resolved form of one of the bases, and
\* raises SecurityError in every other case.
C3_PathContainment ==
    res # <<>> =>
        LET e == ExpandUser(ParsePath(arg.user_path))
            under == /\ e.ok
                     /\ \E i \in 1..Len(arg.allowed_bases) :
                            IsPrefix(Resolve(arg.allowed_bases[i]), Resolve(e))
        IN  IF under THEN res = [kind |-> "ok", path |-> Resolve(e)]
            ELSE res.kind = "SecurityError"

\* a path of an unknown user has been given to _validate_path
C3_UnknownUser == res # <<>> /\ res.kind = "RuntimeError"

\* C4: the clause built from a sanitised value reads as one equality against
\* the literal that is the value itself, and the delete takes away exactly
\* the rows whose column is that value (none when the delete fails).
C4_SafeSqlLiteral ==
    res # <<>> =>
        LET col == res[1]
            w == ParseWhere(WhereClause(col, SanitizeSqlValue(arg)))
            matching == {r \in BagToSet(SqlTable) : r[col] = arg}
        IN  /\ w = [ok |-> TRUE, col |-> col, lit |-> arg, always |-> FALSE]
            /\ store = IF res[2] THEN SqlTable
                       ELSE [r \in BagToSet(SqlTable) \ matching |-> SqlTable[r]]

\* a delete by a value with a quote in it has taken rows away
C4_QuotedValueDeleted ==
    /\ res # <<>>
    /\ \E i \in 1..Len(arg) : arg[i] = "'"
    /\ store # SqlTable

\* C5: all rows of one file_path carry one content_hash.
C5_SingleContentVersion ==
    \A r1, r2 \in BagToSet(store) :
        r1.file_path = r2.file_path => r1.content_hash = r2.content_hash

C7_RejectionWithoutSideEffects ==
    [][(last'.op = "index_document" /\ last'.why \in {"path", "blocked"})
       => (/\ last'.out \in {"SecurityError", "RuntimeError"}
           /\ store' = store
           /\ ~last'.changed
           /\ tracked' = tracked)]_vars

\* the risk level the detector gives a content, and its sanitised text
RiskOf(content) == HighestSeverity(DetectedPatterns(content, 1), "CLEAN")

SanitizedOf(content) ==
    SanitizeContent(content,
                    SortedByPositionDesc(DetectedPatterns(content, 1), Len(content)))

C9_TrustClamp ==
    \A r \in BagToSet(store) :
        LET base == CASE r.trust_level = "TRUSTED" -> 100
                      [] r.trust_level = "VERIFIED" -> 75
                      [] r.trust_level = "UNTRUSTED" -> 50
            penalty == CASE r.security_risk = "CRITICAL" -> 50
                         [] r.security_risk = "HIGH" -> 30
                         [] r.security_risk = "MEDIUM" -> 15
                         [] r.security_risk = "LOW" -> 5
                         [] r.security_risk = "CLEAN" -> 0
        IN  /\ r.trust_score = (IF base - penalty < 10 THEN 10 ELSE base - penalty)
            /\ r.trust_score >= 10
            /\ r.trust_score <= 100

\* a row of an untrusted file of risk CRITICAL is stored with the floor score
C9_FloorReached ==
    \E r \in BagToSet(store) :
        r.trust_level = "UNTRUSTED" /\ r.security_risk = "CRITICAL" /\ r.trust_score = 10

\* what embed_batch returned in the last call: the chunks with a vector and
\* the chunks with None
EmbeddedOk(call) ==
    {call.embedded[i].chunk_index : i \in {j \in 1..Len(call.embedded) : ~call.embedded[j].none}}

EmbeddedNone(call) ==
    {call.embedded[i].chunk_index : i \in {j \in 1..Len(call.embedded) : call.embedded[j].none}}

\* C10: every row holds a vector of 768 components.
C10_EmbeddingShape ==
    \A r \in BagToSet(store) : ~r.vector.none /\ r.vector.dim = 768

\* a batch with a vector of another length has been refused by the table
C10_WrongLengthRefused ==
    last.op = "index_document" /\ last.why = "schema" /\ last.ret = 0

\* C11: when embed_batch gives None for some and not all contextual chunks,
\* the batch is written and the rows of the file are exactly one row for
\* every chunk with a vector, each holding the vector of its own contextual
\* text, none for a chunk with None, and the call returns their number.
C11_PartialEmbeddingFailure ==
    (/\ last.op = "index_document"
     /\ EmbeddedOk(last) # {}
     /\ EmbeddedNone(last) # {})
    => /\ last.why = "indexed"
       /\ {r.chunk_index : r \in FileRows(store, last.path)} = EmbeddedOk(last)
       /\ {r.chunk_index : r \in FileRows(store, last.path)} \cap EmbeddedNone(last) = {}
       /\ \A r \in FileRows(store, last.path) :
              /\ store[r] = 1
              /\ ~r.vector.none
              /\ r.vector.of = [generated_context |-> r.generated_context,
                                chunk_index |-> r.chunk_index]
       /\ last.ret = FileCount(store, last.path)
       /\ last.ret = Cardinality(EmbeddedOk(last))

\* the embedding of one of two contextual chunks was None and the other
\* chunk has been written
C11_OneOfTwoPersisted ==
    /\ last.op = "index_document"
    /\ last.why = "indexed"
    /\ Cardinality(EmbeddedNone(last)) = 1
    /\ last.ret = 1
    /\ FileCount(store, last.path) = 1

\* d1 is ranked no worse than d2 in a list; a chunk that is not in the list
\* is ranked after every chunk that is
NoWorseIn(results, d1, d2) ==
    LET rank(d) == IF RankIn(results, d) = 0 THEN Len(results) + 1
                   ELSE RankIn(results, d)
    IN  rank(d1) <= rank(d2)

\* where a chunk stands in the fused list, 0 when it is not there
FusedAt(fused, d) ==
    IF \E i \in 1..Len(fused) : fused[i].chunk_id = d
    THEN CHOOSE i \in 1..Len(fused) : fused[i].chunk_id = d
    ELSE 0

\* C12: a chunk ranked no worse than another in both lists has a score at
\* least as high, the score of a chunk being the sum over the lists it is in
\* of 1 / (k + rank), and stands after the other in the fused list only when
\* the two scores are equal.
C12_RrfMonotonicity ==
    res # <<>> =>
        \A d1, d2 \in ChunkIds :
            (/\ NoWorseIn(arg.vector_results, d1, d2)
             /\ NoWorseIn(arg.bm25_results, d1, d2))
            => LET s1 == RrfScore(d1, arg.vector_results, arg.bm25_results, RrfK)
                   s2 == RrfScore(d2, arg.vector_results, arg.bm25_results, RrfK)
                   p1 == FusedAt(res.fused, d1)
                   p2 == FusedAt(res.fused, d2)
               IN  /\ s1 >= s2
                   /\ p1 # 0 => res.fused[p1].rrf_score = s1
                   /\ p2 # 0 => res.fused[p2].rrf_score = s2
                   /\ (p1 # 0 /\ p2 # 0 /\ p1 > p2) => s1 = s2
                   /\ (p2 # 0 /\ s1 > s2) => (p1 # 0 /\ p1 < p2)

\* two lists that both rank one chunk above another have been fused, and the
\* first chunk stands above the second with a higher score
C12_BothListsAgree ==
    /\ res # <<>>
    /\ \E d1, d2 \in ChunkIds :
        /\ d1 # d2
        /\ RankIn(arg.vector_results, d2) # 0
        /\ RankIn(arg.bm25_results, d2) # 0
        /\ NoWorseIn(arg.vector_results, d1, d2)
        /\ NoWorseIn(arg.bm25_results, d1, d2)
        /\ FusedAt(res.fused, d1) # 0
        /\ FusedAt(res.fused, d2) # 0
        /\ FusedAt(res.fused, d1) < FusedAt(res.fused, d2)
        /\ res.fused[FusedAt(res.fused, d1)].rrf_score
           > res.fused[FusedAt(res.fused, d2)].rrf_score

\* C14: rerank does not raise and returns at most top_k items; when the model
\* cannot be loaded or predict raises it returns the first top_k chunks it was
\* given, as given; when predict returns, it returns the top_k chunks by
\* rerank_score, highest first, numbered 1..n in final_rank.
C14_RerankDegradation ==
    (arg # <<>> /\ arg.op = "rerank") =>
        LET failed == \/ (~arg.model_loaded /\ ~arg.load_ok)
                      \/ arg.predict.raises
            n == Len(res.out)
            returned == {res.out[i].chunk_id : i \in 1..n}
            score(i) == arg.predict.scores[i]
        IN  /\ ~res.raised
            /\ n <= arg.top_k
            /\ failed => res.out = Truncate(arg.chunks, arg.top_k)
            /\ ~failed =>
                /\ n = (IF Len(arg.chunks) < arg.top_k THEN Len(arg.chunks) ELSE arg.top_k)
                /\ \A i \in 1..n :
                    /\ res.out[i].final_rank = i
                    /\ \E j \in 1..Len(arg.chunks) :
                        /\ arg.chunks[j].chunk_id = res.out[i].chunk_id
                        /\ res.out[i].rerank_score = score(j)
                /\ \A i, j \in 1..n : i # j => res.out[i].chunk_id # res.out[j].chunk_id
                /\ \A i \in 1..(n - 1) : res.out[i].rerank_score >= res.out[i + 1].rerank_score
                /\ \A j \in 1..Len(arg.chunks) :
                    arg.chunks[j].chunk_id \notin returned
                    => \A i \in 1..n : res.out[i].rerank_score >= score(j)

\* predict has raised for three chunks and the first two came back as given
C14_ScoringFailedTruncated ==
    /\ arg # <<>>
    /\ arg.op = "rerank"
    /\ arg.predict.raises
    /\ (arg.model_loaded \/ arg.load_ok)
    /\ Len(arg.chunks) = 3
    /\ arg.top_k = 2
    /\ res.out = SubSeq(arg.chunks, 1, 2)

\* C13: when the query cannot be embedded, retrieve returns the empty list,
\* whatever the table holds and whether or not BM25 and reranking are on.
C13_QueryEmbeddingFailure ==
    (res # <<>> /\ ~arg.embed_ok) => res.out = <<>>

\* a query that could not be embedded has been answered from the BM25 search
C13_LexicalResultsReturned ==
    res # <<>> /\ ~arg.embed_ok /\ arg.enable_bm25 /\ res.out # <<>>

\* C16: the where-clause a search builds from a filter value holds the value
\* with its quotes doubled, and every result is a row whose column is equal
\* to the value.
C16_EveryFilterSanitized ==
    (res # <<>> /\ arg.filters # NoFilter) =>
        /\ WhereClause(arg.filters.key, arg.filters.value)
           = WhereClause(arg.filters.key, SanitizeSqlValue(arg.filters.value))
        /\ \A i \in 1..Len(res.out) :
              \E r \in BagToSet(store) :
                  r.chunk_id = res.out[i] /\ r[arg.filters.key] = arg.filters.value

\* a search filtered by a project has returned a row of another project
C16_FilterEscaped ==
    /\ res # <<>>
    /\ arg.filters.key = "source_project"
    /\ \E i \in 1..Len(res.out) :
          \E r \in BagToSet(store) :
              r.chunk_id = res.out[i] /\ r.source_project # arg.filters.value

\* C15: when two concurrent calls of index_document for one file have both
\* completed, the rows of the file all carry one content_hash and no two of
\* them have the same chunk_index.
C15_ConcurrentWriters ==
    (procs # <<>> /\ \A w \in Writers : procs[w].pc = "done")
    => /\ \A r1, r2 \in FileRows(store, PathDocs) : r1.content_hash = r2.content_hash
       /\ \A r1, r2 \in FileRows(store, PathDocs) :
              r1.chunk_index = r2.chunk_index => r1 = r2
       /\ \A r \in FileRows(store, PathDocs) : store[r] = 1

\* two concurrent calls have both written, and the file has rows of two
\* contents
C15_TwoVersionsStored ==
    /\ procs # <<>>
    /\ \A w \in Writers : procs[w].pc = "done" /\ procs[w].ret > 0
    /\ \E r1, r2 \in FileRows(store, PathDocs) : r1.content_hash # r2.content_hash

\* C17: the context stage gives index_document one contextual chunk for
\* every chunk of the document, so that a chunk whose context task returned
\* None is embedded too, under the fallback context.
C17_ContextFallback ==
    (/\ last.op = "index_document"
     /\ last.why \in {"no_records", "add_failed", "schema", "indexed"})
    => /\ Len(last.embedded) = last.chunks
       /\ {last.embedded[i].chunk_index : i \in 1..Len(last.embedded)}
          = 0..(last.chunks - 1)

\* a document of two chunks has gone to the embedder as one contextual chunk
C17_ChunkLostInContextStage ==
    /\ last.op = "index_document"
    /\ last.why = "indexed"
    /\ last.chunks = 2
    /\ Len(last.embedded) = 1

C19_CompositeFanOut ==
    res.op \in {"notify", "start", "finish"} =>
        /\ ~res.raised
        /\ Len(res.calls) = Len(arg.notifiers)
        /\ \A i \in 1..Len(res.calls) :
              /\ res.calls[i].child = arg.notifiers[i]
              /\ res.calls[i].op = res.op
              /\ res.calls[i].args = res.args

\* the first notifier of the list raised in a notify and the second was
\* called all the same
C19_CalledAfterRaise ==
    /\ res.op = "notify"
    /\ Len(res.calls) >= 2
    /\ res.calls[1].raised
    /\ ~res.calls[2].raised
    /\ ~res.raised

\* C20: a call of index_document for a file that has rows leaves the file
\* without a row only when the batch write failed after the delete of the
\* old rows; a call that ends for any other reason leaves the file a row.
C20_OnlyFailedWriteEmpties ==
    [][(/\ last'.op = "index_document"
        /\ FileCount(store, last'.path) >= 1
        /\ FileCount(store', last'.path) = 0)
       => last'.why \in {"add_failed", "schema"}]_vars

\* C21: at no time are more than max_workers requests in flight.
C21_BoundedConcurrency ==
    Cardinality(InFlight) <= arg.max_workers

\* as many requests as max_workers allows are in flight and a task waits
C21_AllPermitsTaken ==
    /\ Cardinality(InFlight) = arg.max_workers
    /\ procs.permits = 0
    /\ \E t \in DOMAIN procs.status : procs.status[t] = "waiting"

\* the records of a document as the chunks and the answers of the LLM fix
\* them, whatever the order of the answers
AssociationsOf(chunks, outcome) ==
    {[chunk_index |-> c.chunk_index,
      original_chunk |-> c.text,
      contextual_chunk |-> ContextualText(IF c.chunk_index \in DOMAIN outcome THEN "llm" ELSE "",
                                          c.text),
      vector |-> Embed(ContextualText(IF c.chunk_index \in DOMAIN outcome THEN "llm" ELSE "",
                                      c.text), ExpectedDimensions)] :
        c \in {chunks[i] : i \in {j \in 1..Len(chunks) :
                    (j - 1) \in DOMAIN outcome => outcome[j - 1] = "ok"}}}

\* C22: every contextual chunk handed to the embedder carries the
\* chunk_index and the text of the chunk it was made from, and the records
\* built for the document are the same for every order of completion.
C22_IndexReassociation ==
    procs.returned =>
        /\ \A i \in 1..Len(res.all_chunks) :
              LET cc == res.all_chunks[i]
              IN  /\ cc.chunk_index + 1 \in 1..Len(arg.chunks)
                  /\ arg.chunks[cc.chunk_index + 1].chunk_index = cc.chunk_index
                  /\ arg.chunks[cc.chunk_index + 1].text = cc.original_chunk
                  /\ cc.contextual_chunk.chunk = cc.original_chunk
        /\ {res.data[i] : i \in 1..Len(res.data)} = AssociationsOf(arg.chunks, procs.outcome)

\* the later chunk was answered first, and both contexts were generated
C22_CompletedOutOfOrder ==
    /\ procs.returned
    /\ Len(res.all_chunks) >= 2
    /\ res.all_chunks[1].generated_context = "llm"
    /\ res.all_chunks[2].generated_context = "llm"
    /\ res.all_chunks[1].chunk_index > res.all_chunks[2].chunk_index

\* C30: when every request returns or fails, generate_contexts_parallel
\* returns, and the CONTEXT events after the first count 1, 2, ... up to the
\* number of chunks submitted.
C30_ContextStageTerminates ==
    <>(/\ procs.returned
       /\ Len(procs.events) = Cardinality(ChunksNeedingContext(arg.chunks)) + 1
       /\ \A i \in 1..Len(procs.events) :
              procs.events[i] = ContextEvent(i - 1, Cardinality(ChunksNeedingContext(arg.chunks))))

\* returned although a request failed while another task waited for its permit
C30_ReturnedAfterFailure ==
    /\ procs.returned
    /\ Cardinality(DOMAIN procs.status) > arg.max_workers
    /\ procs.completion # <<>>
    /\ procs.outcome[procs.completion[1]] = "none"
    /\ Len(procs.events) = Cardinality(DOMAIN procs.status) + 1

\* C23: a retrieve call with enable_bm25 makes at most one create_index
\* call; when the creation or the lexical search fails it returns what the
\* same query returns with enable_bm25 false; and once a creation has
\* succeeded no later call attempts one.
C23_LexicalDegradation ==
    /\ procs.created <= 1
    /\ res # <<>> =>
          /\ res.attempts <= 1
          /\ res.fts_before => res.attempts = 0
          /\ (/\ res.q.enable_bm25
              /\ \/ (~res.fts_before /\ res.create = "fails")
                 \/ ~res.search_ok)
             => res.out = Retrieve(BagToSet(store), [res.q EXCEPT !.enable_bm25 = FALSE])

\* the third call finds the index created by an earlier one, its lexical
\* search fails and the vector results are returned
C23_SearchFailsAfterCreation ==
    /\ procs.calls = MaxCalls
    /\ procs.created = 1
    /\ res.q.enable_bm25
    /\ res.fts_before
    /\ ~res.search_ok
    /\ res.out # <<>>

ProgressPosts == {i \in 1..Len(procs.posts) : procs.posts[i].op = "notify"}

\* C25: the clock values of any two POSTs of notify are min_interval apart
\* or more, and notify posts no stage outside notify_stages, nor COMPLETE
\* or ERROR.
C25_WebhookRateLimit ==
    /\ \A i, j \in ProgressPosts :
          i # j =>
             \/ procs.posts[i].at - procs.posts[j].at >= arg.min_interval
             \/ procs.posts[j].at - procs.posts[i].at >= arg.min_interval
    /\ \A i \in ProgressPosts :
          /\ ShouldNotify(arg.notify_stages, procs.posts[i].stage)
          /\ procs.posts[i].stage \notin {"COMPLETE", "ERROR"}

\* two notify calls passed the lock one after the other and sent their
\* POSTs in the other order
C25_SentOutOfOrder ==
    /\ arg.min_interval = 2
    /\ ~arg.notify_stages.all
    /\ \E i, j \in ProgressPosts : i < j /\ procs.posts[i].at > procs.posts[j].at

\* C26: every POST of start, notify and finish runs on a thread of its own,
\* and no call waits for a POST.
C26_NonBlockingSink ==
    /\ \A i \in 1..Len(procs.posts) : procs.posts[i].detached
    /\ \A t \in Threads : procs.pc[t] # "posting"

\* the content with every match quoted where it stands, from the last match
\* to the first
RECURSIVE QuotedInPlace(_, _)
QuotedInPlace(content, sorted) ==
    IF sorted = <<>> THEN content
    ELSE LET p == Head(sorted).position
             m == Head(sorted).matched_text
         IN  QuotedInPlace(SubSeq(content, 1, p - 1) \o Marker(m)
                           \o SubSeq(content, p + Len(m), Len(content)),
                           Tail(sorted))

\* every match is a piece of the content itself, at its position
MatchesInContent(content, detected) ==
    \A n \in 1..Len(detected) :
        SubSeq(content, detected[n].position,
               detected[n].position + Len(detected[n].matched_text) - 1)
            = detected[n].matched_text

\* C24: the sanitized content is the content with each match replaced, at
\* its position, by the marker round its text, and nothing else changed.
C24_InPlaceQuoting ==
    (res # <<>> /\ MatchesInContent(arg, res.detected_patterns)) =>
        res.sanitized_content
            = QuotedInPlace(arg, SortedByPositionDesc(res.detected_patterns, Len(arg)))

MarkerCount(text) == Len(SelectSeq(text, LAMBDA c : c = "[Q"))

\* C28: when a pattern is detected the sanitized content differs from the
\* content and holds one marker for each match reported.
C28_DetectionNeutralizes ==
    (res # <<>> /\ res.risk_level # "CLEAN") =>
        /\ res.sanitized_content # arg
        /\ MarkerCount(res.sanitized_content) = Len(res.detected_patterns)

\* C27: index_document leaves the document it is given as it was.
C27_DocumentImmutable ==
    last.op = "index_document" => ~last.changed

\* C29: a call of index_document that finds a row of the file with the hash
\* of the content presented returns there: it cuts no chunk, asks for no
\* context and no embedding, and writes nothing.
C29_NoWorkOnUnchanged ==
    [][(/\ last'.op = "index_document"
        /\ last'.why \notin {"path", "blocked"}
        /\ table
        /\ res'.env.kind # "search"
        /\ FileRows(store, last'.path) # {}
        /\ \A r \in FileRows(store, last'.path) : r.content_hash = last'.hash)
       => (/\ last'.why = "unchanged"
           /\ last'.chunks = 0
           /\ last'.embedded = <<>>
           /\ store' = store)]_vars

====
